---- MODULE Spec2Model ----
(***************************************************************************)
(* A model of the Topics tab of the Kafka terminal client: the page        *)
(* machine of TopicTab, the send form, the receive task and the error      *)
(* band (src/src/tabs/topic.rs, src/src/tabs/topic_send.rs), with the tab  *)
(* chooser of src/src/tabs.rs in front of it.                              *)
(*                                                                         *)
(* Rust values are modelled as follows.  Option<T> is a sequence of        *)
(* length at most one (None is << >>, Some(x) is <<x>>).  A String is the  *)
(* sequence of its chars, each char a one-character TLA+ string; indices   *)
(* into a String are byte indices, as in Rust, and Width gives the UTF-8   *)
(* width of a char.  A panic ends the process: crashed becomes TRUE and    *)
(* nothing happens afterwards.                                             *)
(***************************************************************************)
EXTENDS Integers, Sequences, FiniteSets, TLC

\* ------------------------------------------------------------------ bounds

\* Chars the user types into one form field.
MaxLen == 2
\* The Right key is offered while cursor_index is below this.
MaxCursor == 3
\* Receive tasks spawned in one run.
MaxTasks == 2
\* Records the consumer delivers into the shared buffer in one run.
MaxMsgs == 2
\* set_error tasks pending at the same time.
MaxErrTasks == 2
\* Seconds of wall-clock time in one run.
MaxTime == 6
\* Receive tasks spawned in one run of the error-band sessions.
BandTasks == 1
\* The model's usize::MAX: larger than every list and every cursor.
USIZE_MAX == 3
\* Key events waiting in the terminal at the same time.
MaxPending == 2
\* Key events App::run handles in one run.
MaxHandled == 3
\* The chars typed into a field by the sessions that type the bound chars.
MaxRouted == 1
\* The digits typed into the Partition field by the sessions that send to a
\* partition with a long number.
MaxDigits == 11

\* --------------------------------------------------------------- constants

\* Duration::from_secs(5), slept and compared against in set_error.
ERR_TTL == 5
\* i32::MAX, the range of the partition handed to BaseRecord::partition.
I32_MAX == 2147483647

\* ------------------------------------------------------------------ values

None == << >>
Some(x) == <<x>>
IsSome(o) == o # << >>
Unwrap(o) == o[1]

Pages == {"Normal", "Info", "Messages", "MessagesRecv", "Send", "SendEdit"}
Modes == {"TabChoose", "Tab", "Refresh", "Quit"}
Tabs == <<"Topic", "Group", "Broker">>

\* The chars typed into the form: a digit, and a letter that the Topics tab
\* binds outside SendEdit.
TypedChars == {"1", "q"}
\* The chars the Topics tab binds outside SendEdit.
BoundChars == {"q", "r", "g", "G", "h", "j", "k", "l", "n", "i"}
CharKeys == TypedChars \cup BoundChars
SpecialKeys == {"Esc", "Enter", "Tab", "Backspace", "Left", "Right", "Up",
                "Down", "Home", "End", "F1"}
Keys == CharKeys \cup SpecialKeys
\* A char of two bytes in UTF-8, for the sessions that type one.
WideChars == {"é"}

\* ----------------------------------------------------------------- strings

\* char::len_utf8
Width(c) == IF c = "é" THEN 2 ELSE 1

RECURSIVE ByteLen(_)
\* String::len: the length in bytes
ByteLen(s) == IF s = << >> THEN 0 ELSE Width(Head(s)) + ByteLen(Tail(s))

\* str::is_char_boundary: idx is the start of a char or the end of the string
is_char_boundary(s, idx) == \E n \in 0..Len(s) : ByteLen(SubSeq(s, 1, n)) = idx

\* The number of chars before the char boundary idx.
CharsBefore(s, idx) == CHOOSE n \in 0..Len(s) : ByteLen(SubSeq(s, 1, n)) = idx

\* String::insert panics unless idx is a char boundary (which includes idx <= len).
InsertPanics(s, idx) == ~is_char_boundary(s, idx)

\* String::insert(idx, c), where it does not panic
StringInsert(s, idx, c) ==
    LET n == CharsBefore(s, idx)
    IN SubSeq(s, 1, n) \o <<c>> \o SubSeq(s, n + 1, Len(s))

\* String::remove panics if idx >= len or idx is no char boundary.
RemovePanics(s, idx) == idx >= ByteLen(s) \/ ~is_char_boundary(s, idx)

\* String::remove(idx), where it does not panic
StringRemove(s, idx) ==
    LET n == CharsBefore(s, idx)
    IN SubSeq(s, 1, n) \o SubSeq(s, n + 2, Len(s))

\* char::is_digit(10)
is_digit(c) == c \in {"0", "1", "2", "3", "4", "5", "6", "7", "8", "9"}

DigitValue(c) ==
    CASE c = "0" -> 0 [] c = "1" -> 1 [] c = "2" -> 2 [] c = "3" -> 3
      [] c = "4" -> 4 [] c = "5" -> 5 [] c = "6" -> 6 [] c = "7" -> 7
      [] c = "8" -> 8 [] OTHER -> 9

RECURSIVE DecimalValue(_)
\* The value of a string of digits.
DecimalValue(s) ==
    IF s = << >> THEN 0
    ELSE 10 * DecimalValue(SubSeq(s, 1, Len(s) - 1)) + DigitValue(s[Len(s)])

\* The digits.
Digits == {"0", "1", "2", "3", "4", "5", "6", "7", "8", "9"}

RECURSIVE parse_i32(_, _)
\* str::parse::<i32>() on a string of digits, digit by digit as the library
\* does it: acc * 10 + d with checked_mul and checked_add.  -1 stands for
\* Err(PosOverflow).
parse_i32(s, acc) ==
    IF s = << >> THEN acc
    ELSE IF acc > (I32_MAX - DigitValue(Head(s))) \div 10 THEN -1
    ELSE parse_i32(Tail(s), acc * 10 + DigitValue(Head(s)))

\* str::parse::<i32>().unwrap() panics on anything but an i32 in decimal.
ParsePanics(s) ==
    \/ s = << >>
    \/ \E i \in 1..Len(s) : ~is_digit(s[i])
    \/ parse_i32(s, 0) = -1

usize_saturating_add(n, d) == IF n + d > USIZE_MAX THEN USIZE_MAX ELSE n + d
usize_saturating_sub(n, d) == IF n - d < 0 THEN 0 ELSE n - d

\* --------------------------------------------------------------- send form

Fields == {"Message", "Key", "Partition"}

\* InputField::next
InputField_next(field) ==
    CASE field = "Message" -> "Key"
      [] field = "Key" -> "Partition"
      [] OTHER -> "Message"

\* TopicSendForm::new
TopicSendForm_new(topic) ==
    [field |-> "Message", topic |-> topic, partition |-> << >>,
     message |-> << >>, key |-> << >>, cursor_index |-> 0, err |-> None]

\* The text of the active field.
ActiveText(f) ==
    CASE f.field = "Message" -> f.message
      [] f.field = "Key" -> f.key
      [] OTHER -> f.partition

\* The form with the text of its active field replaced.
WithActiveText(f, s) ==
    CASE f.field = "Message" -> [f EXCEPT !.message = s]
      [] f.field = "Key" -> [f EXCEPT !.key = s]
      [] OTHER -> [f EXCEPT !.partition = s]

\* What a form operation returns: the form after it, and whether it panicked.
Done(f) == [form |-> f, panic |-> FALSE]
Panicked(f) == [form |-> f, panic |-> TRUE]

\* A change of field that leaves the cursor at the start of the new field.
change_field_at_start(f) ==
    [f EXCEPT !.field = InputField_next(f.field), !.cursor_index = 0]

\* TopicSendForm::change_field
change_field(f) ==
    LET g == [f EXCEPT !.field = InputField_next(f.field)]
    IN [g EXCEPT !.cursor_index = ByteLen(ActiveText(g))]

\* TopicSendForm::move_cursor_left
move_cursor_left(f) ==
    [f EXCEPT !.cursor_index = usize_saturating_sub(f.cursor_index, 1)]

\* TopicSendForm::move_cursor_right
move_cursor_right(f) ==
    [f EXCEPT !.cursor_index = usize_saturating_add(f.cursor_index, 1)]

\* TopicSendForm::enter_char
enter_char(f, c) ==
    IF f.field = "Partition" /\ ~is_digit(c) THEN Done(f)
    ELSE IF InsertPanics(ActiveText(f), f.cursor_index) THEN Panicked(f)
    ELSE Done(move_cursor_right(
             WithActiveText(f, StringInsert(ActiveText(f), f.cursor_index, c))))

\* TopicSendForm::delete_char
delete_char(f) ==
    IF f.cursor_index = 0 THEN Done(f)
    ELSE IF RemovePanics(ActiveText(f), f.cursor_index - 1) THEN Panicked(f)
    ELSE Done(move_cursor_left(
             WithActiveText(f, StringRemove(ActiveText(f), f.cursor_index - 1))))

\* empty, forgetting the partition field.
empty_keeps_partition(f) ==
    [f EXCEPT !.message = << >>, !.key = << >>, !.cursor_index = 0]

\* TopicSendForm::empty
empty(f) ==
    [f EXCEPT !.message = << >>, !.key = << >>, !.partition = << >>,
              !.cursor_index = 0]

\* The BaseRecord submit builds: the key and the partition are set only when
\* their fields are not empty.
BuildRecord(f) ==
    [topic |-> f.topic, payload |-> f.message,
     key |-> IF f.key # << >> THEN Some(f.key) ELSE None,
     partition |-> IF f.partition # << >>
                   THEN Some(DecimalValue(f.partition)) ELSE None]

\* The text of the error producer.send returns.
ProduceError == "produce failed"

\* TopicSendForm::submit.  send_ok is the outcome of producer.send.  The
\* result says whether submit returned Ok or Err, and which record, if any,
\* was handed to the producer.
submit(f, send_ok) ==
    IF f.message = << >>
    THEN [form |-> f, panic |-> FALSE, ok |-> TRUE, sent |-> None,
          acked |-> FALSE]
    ELSE IF f.partition # << >> /\ ParsePanics(f.partition)
    THEN [form |-> f, panic |-> TRUE, ok |-> FALSE, sent |-> None,
          acked |-> FALSE]
    ELSE IF ~send_ok
    THEN [form |-> [f EXCEPT !.err = Some(ProduceError)], panic |-> FALSE,
          ok |-> FALSE, sent |-> Some(BuildRecord(f)), acked |-> FALSE]
    ELSE [form |-> empty(f), panic |-> FALSE, ok |-> TRUE,
          sent |-> Some(BuildRecord(f)), acked |-> TRUE]

\* What the form's key handler returns: the form after the key, the page it
\* returns, whether it returned Err (it never does: every return of the
\* source is Ok(page)), whether it panicked, and what submit did with the
\* producer.
FormResult(r, page) ==
    [form |-> r.form, page |-> page, is_err |-> FALSE, panic |-> r.panic,
     sent |-> None, acked |-> FALSE]

\* A key handler of the form whose Enter submits from every field.
handle_key_press_enter_submits(f, key, send_ok) ==
    CASE key = "Enter" ->
           IF TRUE
           THEN LET s == submit(f, send_ok)
                IN [form |-> s.form,
                    page |-> IF s.ok THEN "Messages" ELSE "SendEdit",
                    is_err |-> FALSE, panic |-> s.panic, sent |-> s.sent,
                    acked |-> s.acked]
           ELSE FormResult(Done(change_field(f)), "SendEdit")
      [] key = "Tab" -> FormResult(Done(change_field(f)), "SendEdit")
      [] key = "Esc" -> FormResult(Done(f), "Send")
      [] key = "Left" -> FormResult(Done(move_cursor_left(f)), "SendEdit")
      [] key = "Right" -> FormResult(Done(move_cursor_right(f)), "SendEdit")
      [] key \in CharKeys \cup WideChars \cup Digits ->
           FormResult(enter_char(f, key), "SendEdit")
      [] key = "Backspace" -> FormResult(delete_char(f), "SendEdit")
      [] OTHER -> FormResult(Done(f), "SendEdit")

\* TopicSendForm::handle_key_press
TopicSendForm_handle_key_press(f, key, send_ok) ==
    CASE key = "Enter" ->
           IF f.field = "Message"
           THEN LET s == submit(f, send_ok)
                IN [form |-> s.form,
                    page |-> IF s.ok THEN "Messages" ELSE "SendEdit",
                    is_err |-> FALSE, panic |-> s.panic, sent |-> s.sent,
                    acked |-> s.acked]
           ELSE FormResult(Done(change_field(f)), "SendEdit")
      [] key = "Tab" -> FormResult(Done(change_field(f)), "SendEdit")
      [] key = "Esc" -> FormResult(Done(f), "Send")
      [] key = "Left" -> FormResult(Done(move_cursor_left(f)), "SendEdit")
      [] key = "Right" -> FormResult(Done(move_cursor_right(f)), "SendEdit")
      [] key \in CharKeys \cup WideChars \cup Digits ->
           FormResult(enter_char(f, key), "SendEdit")
      [] key = "Backspace" -> FormResult(delete_char(f), "SendEdit")
      [] OTHER -> FormResult(Done(f), "SendEdit")

\* ------------------------------------------------------------------- state

VARIABLES
    mode,            \* App.mode: the global mode
    tab,             \* App.tab: the tab chosen in TabChoose
    topic_page,      \* TopicTab.topic_page
    items,           \* TopicTab.topic_list.items: the topic names
    selected,        \* TopicTab.topic_list.state.selected(): Option<usize>
    send_form,       \* TopicTab.send_form
    messages,        \* TopicTab.messages: the shared buffer
    err,             \* TopicTab.err: the text of the error band
    err_time,        \* TopicTab.err_time: the set_at of the error band
    receive_handle,  \* TopicTab.receive_handle: Option of a task of recv_tasks
    recv_tasks,      \* the receive tasks spawned so far, in spawn order
    err_tasks,       \* the set_error tasks spawned and not yet ended
    now,             \* the wall clock, in seconds
    crashed,         \* the process panicked
    sent,            \* the record the last key handler gave to producer.send
    acked,           \* producer.send of the last key handler returned Ok
    written_at,      \* when the text now in err was written (for the claims)
    group_items,     \* GroupTab.group_list.items
    group_selected,  \* GroupTab.group_list.state.selected()
    broker_items,    \* BrokerTab.broker_list.items
    broker_selected, \* BrokerTab.broker_list.state.selected()
    consumer_lock,   \* who holds the Mutex of the shared consumer
    messages_lock,   \* who holds the Mutex of the shared buffer
    held_calls,      \* broker calls made under the consumer lock now held
    refresh,         \* the refresh the UI thread is in the middle of
    app,             \* App of app.rs: mode, brokers, topic_list
    app_pc,          \* where App::run is
    pending,         \* the key events the terminal holds, in arrival order
    handled,         \* the key events handled so far, in handling order
    iter_keys        \* the key events handled in this iteration of the loop

\* The state of the Groups and Brokers tabs.
other_tabs == <<group_items, group_selected, broker_items, broker_selected>>

vars == <<mode, tab, topic_page, items, selected, send_form, messages, err,
          err_time, receive_handle, recv_tasks, err_tasks, now, crashed,
          sent, acked, written_at, group_items, group_selected, broker_items,
          broker_selected, consumer_lock, messages_lock, held_calls, refresh,
          app, app_pc, pending, handled, iter_keys>>

\* The locks and what is in progress under them.  An operation that takes
\* and drops its locks within one step leaves them as they were.
locks == <<consumer_lock, messages_lock, held_calls, refresh>>

\* The App of app.rs and its terminal, which the tabs do not touch.
app_vars == <<app, app_pc, pending, handled, iter_keys>>

\* ------------------------------------------------------------ tab chooser

\* self as usize: the discriminant of a Tab
Tab_as_usize(t) == CASE t = "Topic" -> 0 [] t = "Group" -> 1 [] OTHER -> 2

\* Tab::from_repr (derived by strum::FromRepr)
Tab_from_repr(n) == IF n \in 0..(Len(Tabs) - 1) THEN Some(Tabs[n + 1]) ELSE None

\* Option::unwrap_or
unwrap_or(o, default) == IF IsSome(o) THEN Unwrap(o) ELSE default

\* Tab::next, turning back at the last tab
Tab_next_wrapping(t) ==
    unwrap_or(Tab_from_repr((Tab_as_usize(t) + 1) % Len(Tabs)), t)

\* Tab::next
Tab_next(t) ==
    unwrap_or(Tab_from_repr(usize_saturating_add(Tab_as_usize(t), 1)), t)

\* Tab::prev
Tab_prev(t) ==
    unwrap_or(Tab_from_repr(usize_saturating_sub(Tab_as_usize(t), 1)), t)

\* handle_tab_select, with k leaving the program
handle_tab_select_k_quits(t, key) ==
    CASE key \in {"Esc", "q", "k"} -> [tab |-> t, mode |-> "Quit"]
      [] key = "j" -> [tab |-> Tab_next(t), mode |-> "TabChoose"]
      [] key = "Enter" -> [tab |-> t, mode |-> "Tab"]
      [] OTHER -> [tab |-> t, mode |-> "TabChoose"]

\* App::handle_tab_select: the tab and the mode after the key
handle_tab_select(t, key) ==
    CASE key \in {"Esc", "q"} -> [tab |-> t, mode |-> "Quit"]
      [] key = "j" -> [tab |-> Tab_next(t), mode |-> "TabChoose"]
      [] key = "k" -> [tab |-> Tab_prev(t), mode |-> "TabChoose"]
      [] key = "Enter" -> [tab |-> t, mode |-> "Tab"]
      [] OTHER -> [tab |-> t, mode |-> "TabChoose"]

\* ------------------------------------------------------------- tokio tasks

\* A receive task.  tokio::spawn queues it ("spawned") and a worker thread
\* starts polling its future ("running") at a time of its own choosing.
\* recv_messages has no await in its loop, so a task that runs is never at a
\* yield point: it ends only when poll returns an error ("finished").
Alive(task) == task.state \in {"spawned", "running"}

\* tokio::spawn of the receive task.  started says whether a worker thread
\* picks the task up before the spawning thread executes its next statement.
spawn_recv(t, started) ==
    [t EXCEPT
       !.recv_tasks = Append(@, [state |-> IF started THEN "running"
                                           ELSE "spawned",
                                 aborted |-> FALSE]),
       !.receive_handle = Some(Len(t.recv_tasks) + 1)]

\* JoinHandle::abort: a task not yet polled is dropped without running; a
\* task being polled is cancelled at its next yield point, and the receive
\* task has none.
JoinHandle_abort(tasks, id) ==
    [tasks EXCEPT ![id] = [state |-> IF @.state = "spawned" THEN "cancelled"
                                     ELSE @.state,
                           aborted |-> TRUE]]

\* TopicTab::set_error: tokio::spawn of a task running set_error(error, ..)
TopicTab_set_error(t, error) ==
    [t EXCEPT !.err_tasks =
                  Append(@, [text |-> error, phase |-> "spawned", wake |-> 0])]

\* --------------------------------------------------------------- TopicTab

\* ListState::select_next, select_previous, select_first, select_last
ListState_select_next(sel) ==
    Some(IF IsSome(sel) THEN usize_saturating_add(Unwrap(sel), 1) ELSE 0)
ListState_select_previous(sel) ==
    Some(IF IsSome(sel) THEN usize_saturating_sub(Unwrap(sel), 1)
         ELSE USIZE_MAX)
ListState_select_first(sel) == Some(0)
ListState_select_last(sel) == Some(USIZE_MAX)

\* TopicTab::set_topic_page
set_topic_page(t, page) ==
    LET u == IF t.topic_page # "MessagesRecv" /\ IsSome(t.receive_handle)
             THEN [t EXCEPT
                     !.recv_tasks = JoinHandle_abort(@, Unwrap(t.receive_handle)),
                     !.receive_handle = None]
             ELSE t
    IN [u EXCEPT !.topic_page = page]

\* TopicTab::select_none
select_none(t) ==
    IF t.topic_page = "Normal" THEN [t EXCEPT !.selected = None]
    ELSE set_topic_page(t, "Normal")

\* TopicTab::select_next
select_next(t) ==
    CASE t.topic_page = "Normal" ->
           [t EXCEPT !.selected = ListState_select_next(@)]
      [] t.topic_page = "Info" -> set_topic_page(t, "Messages")
      [] t.topic_page \in {"Messages", "MessagesRecv"} ->
           set_topic_page(t, "Send")
      [] OTHER -> set_topic_page(t, "Info")

\* select_previous, going from Info to Messages
select_previous_forward(t) ==
    CASE t.topic_page = "Normal" ->
           [t EXCEPT !.selected = ListState_select_previous(@)]
      [] t.topic_page = "Info" -> [t EXCEPT !.topic_page = "Messages"]
      [] t.topic_page \in {"Messages", "MessagesRecv"} ->
           set_topic_page(t, "Info")
      [] OTHER -> set_topic_page(t, "Messages")

\* TopicTab::select_previous
select_previous(t) ==
    CASE t.topic_page = "Normal" ->
           [t EXCEPT !.selected = ListState_select_previous(@)]
      [] t.topic_page = "Info" -> [t EXCEPT !.topic_page = "Send"]
      [] t.topic_page \in {"Messages", "MessagesRecv"} ->
           set_topic_page(t, "Info")
      [] OTHER -> set_topic_page(t, "Messages")

\* TopicTab::topic_detail
topic_detail(t) ==
    IF IsSome(t.selected) THEN [t EXCEPT !.topic_page = "Info"] ELSE t

\* TopicTab::select_first
select_first(t) == [t EXCEPT !.selected = ListState_select_first(@)]

\* TopicTab::select_last
select_last(t) == [t EXCEPT !.selected = ListState_select_last(@)]

\* The text of the error create_topics returns.
CreateError == "create failed"

\* TopicTab::create_topic.  admin_ok is the outcome of admin.create_topics.
create_topic(t, admin_ok) ==
    IF admin_ok THEN t ELSE TopicTab_set_error(t, CreateError)

\* The Esc and q arm, leaving the tab from every page.
handle_escape_leaves_tab(t) == [t EXCEPT !.mode = "TabChoose"]

\* The Esc and q arm of TopicTab::handle_key_press.
handle_escape(t) ==
    IF t.topic_page = "Normal" THEN [t EXCEPT !.mode = "TabChoose"]
    ELSE set_topic_page(t, "Normal")

\* The Enter arm of TopicTab::handle_key_press.
handle_enter(t, started) ==
    CASE t.topic_page = "Send" -> set_topic_page(t, "SendEdit")
      [] t.topic_page = "Messages" ->
           set_topic_page(spawn_recv(t, started), "MessagesRecv")
      [] OTHER -> topic_detail(t)

\* A SendEdit branch that lets r through to the refresh.
handle_send_edit_r_refreshes(t, key, send_ok) ==
    LET r == TopicSendForm_handle_key_press(t.send_form, key, send_ok)
        u == [t EXCEPT !.send_form = r.form, !.sent = r.sent,
                       !.acked = r.acked]
    IN IF key = "r" THEN [t EXCEPT !.mode = "Refresh"]
       ELSE IF r.panic THEN [t EXCEPT !.crashed = TRUE]
       ELSE IF r.is_err
       THEN set_topic_page(TopicTab_set_error(u, ProduceError), "SendEdit")
       ELSE set_topic_page(u, r.page)

\* A SendEdit branch whose Esc also empties the form.
handle_send_edit_esc_empties(t, key, send_ok) ==
    LET r == TopicSendForm_handle_key_press(t.send_form, key, send_ok)
        u == [t EXCEPT !.send_form = IF key = "Esc" THEN empty(r.form)
                                     ELSE r.form,
                       !.sent = r.sent, !.acked = r.acked]
    IN IF r.panic THEN [t EXCEPT !.crashed = TRUE]
       ELSE IF r.is_err
       THEN set_topic_page(TopicTab_set_error(u, ProduceError), "SendEdit")
       ELSE set_topic_page(u, r.page)

\* The first branch of TopicTab::handle_key_press: the page is SendEdit and
\* the key goes to the form.
handle_send_edit(t, key, send_ok) ==
    LET r == TopicSendForm_handle_key_press(t.send_form, key, send_ok)
        u == [t EXCEPT !.send_form = r.form, !.sent = r.sent,
                       !.acked = r.acked]
    IN IF r.panic THEN [t EXCEPT !.crashed = TRUE]
       ELSE IF r.is_err
       THEN set_topic_page(TopicTab_set_error(u, ProduceError), "SendEdit")
       ELSE set_topic_page(u, r.page)

\* TopicTab::handle_key_press.  The inputs besides the key are the outcomes of
\* the calls it makes: in.send_ok (producer.send), in.admin_ok
\* (admin.create_topics), in.started (see spawn_recv).  t.mode is the mode
\* it returns.
TopicTab_handle_key_press(t, key, in) ==
    IF t.topic_page = "SendEdit" THEN handle_send_edit(t, key, in.send_ok)
    ELSE CASE key \in {"Esc", "q"} -> handle_escape(t)
           [] key = "r" -> [t EXCEPT !.mode = "Refresh"]
           [] key \in {"g", "Home"} -> select_first(t)
           [] key \in {"G", "End"} -> select_last(t)
           [] key \in {"h", "Left"} -> select_none(t)
           [] key \in {"j", "Down"} -> select_next(t)
           [] key \in {"k", "Up"} -> select_previous(t)
           [] key \in {"l", "Right"} -> topic_detail(t)
           [] key = "n" -> create_topic(t, in.admin_ok)
           [] key = "i" ->
                IF t.topic_page = "Send" THEN set_topic_page(t, "SendEdit")
                ELSE t
           [] key = "Enter" -> handle_enter(t, in.started)
           [] OTHER -> t

\* ---------------------------------------------------------------- actions

\* The TopicTab as the key handler sees it.
CurrentTab ==
    [topic_page |-> topic_page, selected |-> selected, send_form |-> send_form,
     receive_handle |-> receive_handle, recv_tasks |-> recv_tasks,
     err_tasks |-> err_tasks, crashed |-> FALSE, sent |-> None,
     acked |-> FALSE, mode |-> "Tab"]

\* The outcomes of the calls a key handler makes.
Outcomes == [send_ok : BOOLEAN, admin_ok : BOOLEAN, started : BOOLEAN]

\* What the environment offers within the bounds of the model: a char is
\* typed while the active field is shorter than MaxLen, Right is pressed while
\* the cursor is below MaxCursor, a receive task is started while fewer than
\* MaxTasks were, and a call fails while a set_error task can be added.
Offered(key, in) ==
    /\ topic_page = "SendEdit" /\ key \in CharKeys \cup WideChars
         => /\ key \in TypedChars \cup WideChars
            /\ Len(ActiveText(send_form)) < MaxLen
    /\ topic_page = "SendEdit" /\ key = "Right"
         => send_form.cursor_index < MaxCursor
    /\ topic_page = "Messages" /\ key = "Enter" => Len(recv_tasks) < MaxTasks
    /\ ~in.admin_ok => Len(err_tasks) < MaxErrTasks

Running == ~crashed /\ mode # "Quit"

\* A key event in global mode TabChoose: App::handle_tab_select.
TabSelect(key) ==
    /\ Running
    /\ mode = "TabChoose"
    /\ LET r == handle_tab_select(tab, key)
       IN /\ tab' = r.tab
          /\ mode' = r.mode
    /\ UNCHANGED <<topic_page, items, selected, send_form, messages, err,
                   err_time, receive_handle, recv_tasks, err_tasks, now,
                   crashed, sent, acked, written_at>>
    /\ UNCHANGED other_tabs
    /\ UNCHANGED locks
    /\ UNCHANGED app_vars

\* A key event in global mode Tab with the Topics tab chosen:
\* TopicTab::handle_key_press, whose return value becomes the global mode.
KeyEvent(key, in) ==
    /\ Running
    /\ mode = "Tab"
    /\ tab = "Topic"
    /\ LET t == TopicTab_handle_key_press(CurrentTab, key, in)
       IN /\ topic_page' = t.topic_page
          /\ selected' = t.selected
          /\ send_form' = t.send_form
          /\ receive_handle' = t.receive_handle
          /\ recv_tasks' = t.recv_tasks
          /\ err_tasks' = t.err_tasks
          /\ crashed' = t.crashed
          /\ sent' = t.sent
          /\ acked' = t.acked
          /\ mode' = t.mode
    /\ UNCHANGED <<tab, items, messages, err, err_time, now, written_at>>
    /\ UNCHANGED other_tabs
    /\ UNCHANGED locks
    /\ UNCHANGED app_vars

\* A key event of the Topics tab that the environment offers.
KeyPress(key, in) == Offered(key, in) /\ KeyEvent(key, in)

\* A partition and a topic as fetch_metadata reports them.
MetadataPartition(id) ==
    [id |-> id, leader |-> 1, replicas |-> <<1>>, isr |-> <<1>>]
MetadataTopic(name, ids) ==
    [name |-> name,
     partitions |-> [i \in 1..Len(ids) |-> MetadataPartition(ids[i])]]

\* The topics of the cluster: t1 with one partition, t2 with two.
T1 == MetadataTopic("t1", <<0>>)
T2 == MetadataTopic("t2", <<0, 1>>)

\* The topic lists the broker reports.
Responses == {<< >>, <<T1>>, <<T1, T2>>}

\* KafkaPartition::from: the watermarks start at 0
KafkaPartition_from(partition) ==
    [id |-> partition.id, leader |-> partition.leader,
     replicas |-> partition.replicas, isr |-> partition.isr,
     low |-> 0, high |-> 0]

\* KafkaTopic::from
KafkaTopic_from(topic) ==
    [name |-> topic.name,
     partitions |-> [i \in 1..Len(topic.partitions) |->
                       KafkaPartition_from(topic.partitions[i])]]

\* What fetch_watermarks returns for a partition when it succeeds.
Watermarks(name, id) == [low |-> 1, high |-> 10]

\* The number of fetch_watermarks calls of a refresh in which none fails.
RECURSIVE WatermarkFetches(_)
WatermarkFetches(topics) ==
    IF topics = << >> THEN 0
    ELSE Len(Head(topics).partitions) + WatermarkFetches(Tail(topics))

\* The loop over metadata.topics() in refresh_matadata: each topic is
\* mapped, the watermarks of its partitions are fetched one by one, and the
\* topic is pushed.  fetched is the number of fetch_watermarks calls made so
\* far, and the call number fail fails (none if fail is 0): the loop returns
\* at once, without pushing the topic it is at.  fetches is the number of
\* fetch_watermarks calls made when the loop ends.
RECURSIVE PushTopics(_, _, _)
PushTopics(topics, fetched, fail) ==
    IF topics = << >>
    THEN [items |-> << >>, failed |-> FALSE, fetches |-> fetched]
    ELSE LET kafka_topic == KafkaTopic_from(Head(topics))
             n == Len(kafka_topic.partitions)
             with_watermarks ==
                 [kafka_topic EXCEPT !.partitions =
                    [i \in 1..n |->
                       LET w == Watermarks(kafka_topic.name,
                                           kafka_topic.partitions[i].id)
                       IN [kafka_topic.partitions[i] EXCEPT
                             !.low = w.low, !.high = w.high]]]
         IN IF fail \in (fetched + 1)..(fetched + n)
            THEN [items |-> << >>, failed |-> TRUE, fetches |-> fail]
            ELSE LET rest == PushTopics(Tail(topics), fetched + n, fail)
                 IN [items |-> <<with_watermarks>> \o rest.items,
                     failed |-> rest.failed, fetches |-> rest.fetches]

\* The text of the error a metadata or watermark fetch returns.
FetchError == "fetch failed"

\* The value of fail that stands for a failure of fetch_metadata itself.
MetadataFails(resp) == WatermarkFetches(resp) + 1

\* A refresh that, when a watermark fetch fails, still pushes the topic it
\* is at and the topics after it, as mapped.
refresh_matadata_pushes_unfetched(t, its, resp, fail) ==
    IF fail = MetadataFails(resp)
    THEN [items |-> its, tab |-> TopicTab_set_error(t, FetchError)]
    ELSE LET r == PushTopics(resp, 0, fail)
         IN [items |-> r.items \o
                         [i \in 1..(Len(resp) - Len(r.items)) |->
                            KafkaTopic_from(resp[Len(r.items) + i])],
             tab |-> IF r.failed THEN TopicTab_set_error(t, FetchError)
                     ELSE t]

\* A refresh that clears the list only once every fetch has succeeded.
refresh_matadata_keeps_old(t, its, resp, fail) ==
    IF fail = 0 THEN [items |-> PushTopics(resp, 0, 0).items, tab |-> t]
    ELSE [items |-> its, tab |-> TopicTab_set_error(t, FetchError)]

\* TopicTab::refresh_matadata.  resp is the topic list fetch_metadata reports
\* and fail is 0 if every call succeeds, MetadataFails(resp) if
\* fetch_metadata fails, and n if the n-th fetch_watermarks call is the first
\* to fail.  The result is the items and the tab afterwards.
refresh_matadata(t, its, resp, fail) ==
    IF fail = MetadataFails(resp)
    THEN [items |-> its, tab |-> TopicTab_set_error(t, FetchError)]
    ELSE LET r == PushTopics(resp, 0, fail)
         IN [items |-> r.items,
             tab |-> IF r.failed THEN TopicTab_set_error(t, FetchError)
                     ELSE t]

\* Global mode Refresh: the shell refreshes the chosen tab and returns to Tab.
Refresh(resp, fail) ==
    /\ Running
    /\ mode = "Refresh"
    /\ tab = "Topic"
    /\ fail # 0 => Len(err_tasks) < MaxErrTasks
    /\ LET r == refresh_matadata(CurrentTab, items, resp, fail)
       IN /\ items' = r.items
          /\ err_tasks' = r.tab.err_tasks
    /\ mode' = "Tab"
    /\ UNCHANGED <<tab, topic_page, selected, send_form, messages, err,
                   err_time, receive_handle, recv_tasks, now, crashed, sent,
                   acked, written_at>>
    /\ UNCHANGED other_tabs
    /\ UNCHANGED locks
    /\ UNCHANGED app_vars

\* The selection after List's StatefulWidget::render, which clamps it to the
\* list: None for an empty list, the last item for an index past the end.
ListClamp(sel, n) ==
    IF n = 0 THEN None
    ELSE IF IsSome(sel) /\ Unwrap(sel) >= n THEN Some(n - 1)
    ELSE sel

\* A render_topic_send that binds the form and keeps its fields.
render_topic_send_keeps_fields(f, its, sel) ==
    [f EXCEPT !.topic = its[Unwrap(sel) + 1].name]

\* TopicTab::render_topic_send: the form is bound to the selected topic
render_topic_send(f, its, sel) ==
    LET current_topic == its[Unwrap(sel) + 1].name
    IN IF f.topic # current_topic
       THEN empty([f EXCEPT !.topic = current_topic])
       ELSE f

\* TopicSendForm::render slices the active field at the cursor when the
\* cursor is inside the text; slicing off a char boundary panics.
FormRenderPanics(f) ==
    /\ f.cursor_index < ByteLen(ActiveText(f))
    /\ \/ ~is_char_boundary(ActiveText(f), f.cursor_index)
       \/ ~is_char_boundary(ActiveText(f), f.cursor_index + 1)

\* TopicTab::render: the selection and the form after a frame, and whether
\* drawing it panicked.
TopicTab_render(f, its, sel, page) ==
    LET s == ListClamp(sel, Len(its))
        g == IF IsSome(s) /\ page \in {"Send", "SendEdit"}
             THEN render_topic_send(f, its, s)
             ELSE f
    IN [selected |-> s, send_form |-> g,
        panic |-> /\ IsSome(s)
                  /\ page \in {"Send", "SendEdit"}
                  /\ FormRenderPanics(g)]

\* A frame is drawn.
Render ==
    /\ Running
    /\ tab = "Topic"
    /\ LET r == TopicTab_render(send_form, items, selected, topic_page)
       IN /\ selected' = r.selected
          /\ send_form' = r.send_form
          /\ crashed' = r.panic
    /\ UNCHANGED <<mode, tab, topic_page, items, messages, err, err_time,
                   receive_handle, recv_tasks, err_tasks, now, sent, acked,
                   written_at>>
    /\ UNCHANGED other_tabs
    /\ UNCHANGED locks
    /\ UNCHANGED app_vars

\* TopicTab::bottom_bar_spans: the error text, or else the legend of keys
bottom_bar_spans(e) == IF IsSome(e) THEN Unwrap(e) ELSE "legend"

\* A field of a message of the broker, as payload_view::<str>() and
\* key_view::<str>() see it: absent, bytes that are no UTF-8, or text.
Absent == [kind |-> "absent", text |-> ""]
Invalid == [kind |-> "invalid", text |-> ""]
Utf8(s) == [kind |-> "utf8", text |-> s]

\* The messages the consumer delivers.
BrokerMessages ==
    {[offset |-> 7, key |-> Utf8("k"), payload |-> Utf8("p")],
     [offset |-> 8, key |-> Absent, payload |-> Invalid]}

\* A conversion that leaves the offset out of the record.
KafkaMessage_from_without_offset(m) ==
    [offset |-> 0,
     payload |-> IF m.payload.kind = "utf8" THEN m.payload.text ELSE "Unknown",
     key |-> IF m.key.kind = "utf8" THEN m.key.text ELSE "Unknown"]

\* KafkaMessage::from
KafkaMessage_from(m) ==
    [offset |-> m.offset,
     payload |-> IF m.payload.kind = "utf8" THEN m.payload.text ELSE "Unknown",
     key |-> IF m.key.kind = "utf8" THEN m.key.text ELSE "Unknown"]

\* The text of the error consumer.poll returns.
PollError == "poll failed"

\* The text the spawned closure writes to err when recv_messages returns:
\* the error's text, or a literal after Ok.
recv_end_text(is_err, e) ==
    IF is_err THEN e ELSE "Recv messages finished"

\* What consumer.poll returns: a message, an error, or nothing in time.
PollResults ==
    {[kind |-> "message", message |-> m] : m \in BrokerMessages}
      \cup {[kind |-> "error"], [kind |-> "none"]}

\* A round of the loop that keeps the last message only.
RecvPoll_keeps_last(id, polled) ==
    /\ Running
    /\ id \in 1..Len(recv_tasks)
    /\ Alive(recv_tasks[id])
    /\ polled.kind = "message" => Len(messages) < MaxMsgs
    /\ recv_tasks' =
         [recv_tasks EXCEPT ![id].state = IF polled.kind = "error"
                                          THEN "finished" ELSE "running"]
    /\ messages' = IF polled.kind = "message"
                   THEN <<KafkaMessage_from(polled.message)>>
                   ELSE messages
    /\ err' = IF polled.kind = "error"
              THEN Some(recv_end_text(TRUE, PollError)) ELSE err
    /\ written_at' = IF polled.kind = "error" THEN Some(now) ELSE written_at
    /\ UNCHANGED <<mode, tab, topic_page, items, selected, send_form,
                   err_time, receive_handle, err_tasks, now, crashed, sent,
                   acked>>
    /\ UNCHANGED other_tabs
    /\ UNCHANGED locks
    /\ UNCHANGED app_vars

\* One round of the loop of recv_messages in receive task id, and, when poll
\* returns an error, the end of the task, which writes the text to err.  The
\* loop has no other exit: recv_messages never returns Ok.
RecvPoll(id, polled) ==
    /\ Running
    /\ id \in 1..Len(recv_tasks)
    /\ Alive(recv_tasks[id])
    /\ polled.kind = "message" => Len(messages) < MaxMsgs
    /\ recv_tasks' =
         [recv_tasks EXCEPT ![id].state = IF polled.kind = "error"
                                          THEN "finished" ELSE "running"]
    /\ messages' = IF polled.kind = "message"
                   THEN Append(messages, KafkaMessage_from(polled.message))
                   ELSE messages
    /\ err' = IF polled.kind = "error"
              THEN Some(recv_end_text(TRUE, PollError)) ELSE err
    /\ written_at' = IF polled.kind = "error" THEN Some(now) ELSE written_at
    /\ UNCHANGED <<mode, tab, topic_page, items, selected, send_form,
                   err_time, receive_handle, err_tasks, now, crashed, sent,
                   acked>>
    /\ UNCHANGED other_tabs
    /\ UNCHANGED locks
    /\ UNCHANGED app_vars

\* The sequence s without its i-th element.
RemoveAt(s, i) == SubSeq(s, 1, i - 1) \o SubSeq(s, i + 1, Len(s))

\* The first half of set_error in task i: the text and the time are written.
ErrSet(i) ==
    /\ Running
    /\ i \in 1..Len(err_tasks)
    /\ err_tasks[i].phase = "spawned"
    /\ err' = Some(err_tasks[i].text)
    /\ err_time' = Some(now)
    /\ written_at' = Some(now)
    /\ err_tasks' = [err_tasks EXCEPT ![i].phase = "sleeping",
                                      ![i].wake = now + ERR_TTL]
    /\ UNCHANGED <<mode, tab, topic_page, items, selected, send_form, messages,
                   receive_handle, recv_tasks, now, crashed, sent, acked>>
    /\ UNCHANGED other_tabs
    /\ UNCHANGED locks
    /\ UNCHANGED app_vars

\* Whether the second half of set_error clears the text.
Expired(time, t) == IsSome(time) /\ t - Unwrap(time) >= ERR_TTL

\* The second half of set_error in task i, after its sleep: the text is
\* cleared if the time in err_time is ERR_TTL old.
ErrExpire(i) ==
    /\ Running
    /\ i \in 1..Len(err_tasks)
    /\ err_tasks[i].phase = "sleeping"
    /\ now >= err_tasks[i].wake
    /\ err' = IF Expired(err_time, now) THEN None ELSE err
    /\ written_at' = IF Expired(err_time, now) THEN None ELSE written_at
    /\ err_tasks' = RemoveAt(err_tasks, i)
    /\ UNCHANGED <<mode, tab, topic_page, items, selected, send_form, messages,
                   err_time, receive_handle, recv_tasks, now, crashed, sent,
                   acked>>
    /\ UNCHANGED other_tabs
    /\ UNCHANGED locks
    /\ UNCHANGED app_vars

\* The locks of the error band, taken one by one.  A set_error task in phase
\* "has_err" holds the guard of err and is about to lock err_time; one in
\* phase "wants_err" holds the guard of err_time, has found the time ERR_TTL
\* old, and is about to lock err.
ErrFree == \A i \in 1..Len(err_tasks) : err_tasks[i].phase # "has_err"
ErrTimeFree == \A i \in 1..Len(err_tasks) : err_tasks[i].phase # "wants_err"

\* set_error in task i: err_arc.lock() and the write of the text.
SetLockErr(i) ==
    /\ Running
    /\ i \in 1..Len(err_tasks)
    /\ err_tasks[i].phase = "spawned"
    /\ ErrFree
    /\ err' = Some(err_tasks[i].text)
    /\ written_at' = Some(now)
    /\ err_tasks' = [err_tasks EXCEPT ![i].phase = "has_err"]
    /\ UNCHANGED <<mode, tab, topic_page, items, selected, send_form, messages,
                   err_time, receive_handle, recv_tasks, now, crashed, sent,
                   acked>>
    /\ UNCHANGED other_tabs
    /\ UNCHANGED locks
    /\ UNCHANGED app_vars

\* set_error in task i: err_time_arc.lock() under the guard of err, the
\* write of the time, the drop of both guards and the start of the sleep.
SetLockTime(i) ==
    /\ Running
    /\ i \in 1..Len(err_tasks)
    /\ err_tasks[i].phase = "has_err"
    /\ ErrTimeFree
    /\ err_time' = Some(now)
    /\ err_tasks' = [err_tasks EXCEPT ![i].phase = "sleeping",
                                      ![i].wake = now + ERR_TTL]
    /\ UNCHANGED <<mode, tab, topic_page, items, selected, send_form, messages,
                   err, receive_handle, recv_tasks, now, crashed, sent, acked,
                   written_at>>
    /\ UNCHANGED other_tabs
    /\ UNCHANGED locks
    /\ UNCHANGED app_vars

\* set_error in task i after its sleep: err_time_arc.lock() and the test of
\* the time.  A time that is not ERR_TTL old ends the task and drops the
\* guard; otherwise the task goes on to lock err under the guard.
WakeLockTime(i) ==
    /\ Running
    /\ i \in 1..Len(err_tasks)
    /\ err_tasks[i].phase = "sleeping"
    /\ now >= err_tasks[i].wake
    /\ ErrTimeFree
    /\ err_tasks' = IF Expired(err_time, now)
                    THEN [err_tasks EXCEPT ![i].phase = "wants_err"]
                    ELSE RemoveAt(err_tasks, i)
    /\ UNCHANGED <<mode, tab, topic_page, items, selected, send_form, messages,
                   err, err_time, receive_handle, recv_tasks, now, crashed,
                   sent, acked, written_at>>
    /\ UNCHANGED other_tabs
    /\ UNCHANGED locks
    /\ UNCHANGED app_vars

\* set_error in task i: err_arc.lock() under the guard of err_time, the
\* clearing of the text and the end of the task, which drops both guards.
WakeLockErr(i) ==
    /\ Running
    /\ i \in 1..Len(err_tasks)
    /\ err_tasks[i].phase = "wants_err"
    /\ ErrFree
    /\ err' = None
    /\ written_at' = None
    /\ err_tasks' = RemoveAt(err_tasks, i)
    /\ UNCHANGED <<mode, tab, topic_page, items, selected, send_form, messages,
                   err_time, receive_handle, recv_tasks, now, crashed, sent,
                   acked>>
    /\ UNCHANGED other_tabs
    /\ UNCHANGED locks
    /\ UNCHANGED app_vars

\* A second passes.  A sleeping set_error task wakes when its sleep is over.
Tick ==
    /\ Running
    /\ now < MaxTime
    /\ \A i \in 1..Len(err_tasks) :
         err_tasks[i].phase = "sleeping" => err_tasks[i].wake > now
    /\ now' = now + 1
    /\ UNCHANGED <<mode, tab, topic_page, items, selected, send_form, messages,
                   err, err_time, receive_handle, recv_tasks, err_tasks,
                   crashed, sent, acked, written_at>>
    /\ UNCHANGED other_tabs
    /\ UNCHANGED locks
    /\ UNCHANGED app_vars

\* ------------------------------------------------- Groups and Brokers tabs

\* A group and its members as fetch_group_list reports them.
GroupMemberInfo(id) == [id |-> id, client_id |-> "c", client_host |-> "h"]
GroupInfo(name, ids) ==
    [name |-> name, state |-> "Stable", protocol |-> "range",
     protocol_type |-> "consumer",
     members |-> [i \in 1..Len(ids) |-> GroupMemberInfo(ids[i])]]
G1 == GroupInfo("g1", <<"m1">>)
G2 == GroupInfo("g2", << >>)

\* The group lists the broker reports.
GroupResponses == {<< >>, <<G2>>, <<G1, G2>>}

\* KafkaGroupMember::from
KafkaGroupMember_from(member) ==
    [id |-> member.id, client_id |-> member.client_id,
     client_host |-> member.client_host]

\* KafkaGroup::from
KafkaGroup_from(group) ==
    [name |-> group.name, state |-> group.state, protocol |-> group.protocol,
     protocol_type |-> group.protocol_type,
     members |-> [i \in 1..Len(group.members) |->
                    KafkaGroupMember_from(group.members[i])]]

\* A broker as fetch_metadata reports it.
MetadataBroker(id, host) == [id |-> id, host |-> host, port |-> 9092]
B1 == MetadataBroker(1, "b1")
B2 == MetadataBroker(2, "b2")

\* The broker lists the broker reports.
BrokerResponses == {<<B1>>, <<B2>>, <<B1, B2>>}

\* KafkaBroker::from
KafkaBroker_from(broker) == [host |-> broker.host, port |-> broker.port]

\* The text of the error a refresh of the Groups or Brokers tab returns.
RefreshError == "refresh failed"

\* GroupTab::refresh_matadata without items.clear()
GroupTab_refresh_appends(its, resp, ok) ==
    IF ~ok THEN [items |-> its, is_err |-> TRUE]
    ELSE [items |-> its \o [i \in 1..Len(resp) |-> KafkaGroup_from(resp[i])],
          is_err |-> FALSE]

\* GroupTab::refresh_matadata.  resp is what fetch_group_list reports and ok
\* whether it succeeds; the result is the items afterwards and whether the
\* refresh returned Err.
GroupTab_refresh_matadata(its, resp, ok) ==
    IF ~ok THEN [items |-> its, is_err |-> TRUE]
    ELSE [items |-> [i \in 1..Len(resp) |-> KafkaGroup_from(resp[i])],
          is_err |-> FALSE]

\* A refresh of the brokers that clears the list before it fetches.
BrokerTab_refresh_clears_first(its, resp, ok) ==
    IF ~ok THEN [items |-> << >>, is_err |-> TRUE]
    ELSE [items |-> [i \in 1..Len(resp) |-> KafkaBroker_from(resp[i])],
          is_err |-> FALSE]

\* BrokerTab::refresh_matadata.  resp is what metadata.brokers() reports and
\* ok whether fetch_metadata succeeds.
BrokerTab_refresh_matadata(its, resp, ok) ==
    IF ~ok THEN [items |-> its, is_err |-> TRUE]
    ELSE [items |-> [i \in 1..Len(resp) |-> KafkaBroker_from(resp[i])],
          is_err |-> FALSE]

\* A key handler of the Groups tab whose q and Esc quit the program.
GroupTab_handle_key_press_quits(sel, key) ==
    CASE key \in {"Esc", "q"} -> [selected |-> sel, mode |-> "Quit"]
      [] key = "r" -> [selected |-> sel, mode |-> "Refresh"]
      [] key \in {"g", "Home"} ->
           [selected |-> ListState_select_first(sel), mode |-> "Tab"]
      [] key \in {"G", "End"} ->
           [selected |-> ListState_select_last(sel), mode |-> "Tab"]
      [] key \in {"h", "Left"} -> [selected |-> None, mode |-> "Tab"]
      [] key \in {"j", "Down"} ->
           [selected |-> ListState_select_next(sel), mode |-> "Tab"]
      [] key \in {"k", "Up"} ->
           [selected |-> ListState_select_previous(sel), mode |-> "Tab"]
      [] OTHER -> [selected |-> sel, mode |-> "Tab"]

\* GroupTab::handle_key_press: the selection and the mode after the key
GroupTab_handle_key_press(sel, key) ==
    CASE key \in {"Esc", "q"} -> [selected |-> sel, mode |-> "TabChoose"]
      [] key = "r" -> [selected |-> sel, mode |-> "Refresh"]
      [] key \in {"g", "Home"} ->
           [selected |-> ListState_select_first(sel), mode |-> "Tab"]
      [] key \in {"G", "End"} ->
           [selected |-> ListState_select_last(sel), mode |-> "Tab"]
      [] key \in {"h", "Left"} -> [selected |-> None, mode |-> "Tab"]
      [] key \in {"j", "Down"} ->
           [selected |-> ListState_select_next(sel), mode |-> "Tab"]
      [] key \in {"k", "Up"} ->
           [selected |-> ListState_select_previous(sel), mode |-> "Tab"]
      [] OTHER -> [selected |-> sel, mode |-> "Tab"]

\* BrokerTab::handle_key_press: the selection and the mode after the key
BrokerTab_handle_key_press(sel, key) ==
    CASE key \in {"Esc", "q"} -> [selected |-> sel, mode |-> "TabChoose"]
      [] key = "r" -> [selected |-> sel, mode |-> "Refresh"]
      [] key \in {"g", "Home"} ->
           [selected |-> ListState_select_first(sel), mode |-> "Tab"]
      [] key \in {"G", "End"} ->
           [selected |-> ListState_select_last(sel), mode |-> "Tab"]
      [] key \in {"h", "Left"} -> [selected |-> None, mode |-> "Tab"]
      [] key \in {"j", "Down"} ->
           [selected |-> ListState_select_next(sel), mode |-> "Tab"]
      [] key \in {"k", "Up"} ->
           [selected |-> ListState_select_previous(sel), mode |-> "Tab"]
      [] OTHER -> [selected |-> sel, mode |-> "Tab"]

\* What the Topics tab and the error band keep when another tab acts.
topic_tab == <<topic_page, items, selected, send_form, messages, err,
               err_time, receive_handle, recv_tasks, now, crashed, sent,
               acked, written_at>>

\* A key event in global mode Tab with the Groups tab chosen.
GroupKeyPress(key) ==
    /\ Running
    /\ mode = "Tab"
    /\ tab = "Group"
    /\ LET r == GroupTab_handle_key_press(group_selected, key)
       IN /\ group_selected' = r.selected
          /\ mode' = r.mode
    /\ UNCHANGED <<tab, group_items, broker_items, broker_selected, err_tasks>>
    /\ UNCHANGED topic_tab
    /\ UNCHANGED locks
    /\ UNCHANGED app_vars

\* A key event in global mode Tab with the Brokers tab chosen.
BrokerKeyPress(key) ==
    /\ Running
    /\ mode = "Tab"
    /\ tab = "Broker"
    /\ LET r == BrokerTab_handle_key_press(broker_selected, key)
       IN /\ broker_selected' = r.selected
          /\ mode' = r.mode
    /\ UNCHANGED <<tab, group_items, group_selected, broker_items, err_tasks>>
    /\ UNCHANGED topic_tab
    /\ UNCHANGED locks
    /\ UNCHANGED app_vars

\* The shell routes an error a tab returns to set_error.
Shell_set_error(tasks, is_err, error) ==
    IF is_err
    THEN Append(tasks, [text |-> error, phase |-> "spawned", wake |-> 0])
    ELSE tasks

\* Global mode Refresh with the Groups tab chosen.
GroupRefresh(resp, ok) ==
    /\ Running
    /\ mode = "Refresh"
    /\ tab = "Group"
    /\ ~ok => Len(err_tasks) < MaxErrTasks
    /\ LET r == GroupTab_refresh_matadata(group_items, resp, ok)
       IN /\ group_items' = r.items
          /\ err_tasks' = Shell_set_error(err_tasks, r.is_err, RefreshError)
    /\ mode' = "Tab"
    /\ UNCHANGED <<tab, group_selected, broker_items, broker_selected>>
    /\ UNCHANGED topic_tab
    /\ UNCHANGED locks
    /\ UNCHANGED app_vars

\* Global mode Refresh with the Brokers tab chosen.
BrokerRefresh(resp, ok) ==
    /\ Running
    /\ mode = "Refresh"
    /\ tab = "Broker"
    /\ ~ok => Len(err_tasks) < MaxErrTasks
    /\ LET r == BrokerTab_refresh_matadata(broker_items, resp, ok)
       IN /\ broker_items' = r.items
          /\ err_tasks' = Shell_set_error(err_tasks, r.is_err, RefreshError)
    /\ mode' = "Tab"
    /\ UNCHANGED <<tab, group_items, group_selected, broker_selected>>
    /\ UNCHANGED topic_tab
    /\ UNCHANGED locks
    /\ UNCHANGED app_vars

\* A frame is drawn with the Groups tab chosen: GroupTab::render, whose list
\* widget clamps the selection before render_main_area indexes the items.
GroupRender ==
    /\ Running
    /\ tab = "Group"
    /\ group_selected' = ListClamp(group_selected, Len(group_items))
    /\ UNCHANGED <<mode, tab, group_items, broker_items, broker_selected,
                   err_tasks>>
    /\ UNCHANGED topic_tab
    /\ UNCHANGED locks
    /\ UNCHANGED app_vars

\* A frame is drawn with the Brokers tab chosen: BrokerTab::render.
BrokerRender ==
    /\ Running
    /\ tab = "Broker"
    /\ broker_selected' = ListClamp(broker_selected, Len(broker_items))
    /\ UNCHANGED <<mode, tab, group_items, group_selected, broker_items,
                   err_tasks>>
    /\ UNCHANGED topic_tab
    /\ UNCHANGED locks
    /\ UNCHANGED app_vars

\* ------------------------------------------- the consumer lock, step by step

\* A Mutex nobody holds, and its holders: the UI thread or a receive task.
Free == <<"free", 0>>
UiThread == <<"ui", 0>>
RecvTask(id) == <<"recv", id>>

\* The UI thread is in no refresh.  In a refresh, phase says which broker call
\* comes next, pending are the topics of the response not yet pushed and done
\* is the number of partitions of the first of them whose watermarks were
\* fetched.
Idle == [phase |-> "idle", pending |-> << >>, done |-> 0]

\* What every step of a refresh on the UI thread leaves alone.
refresh_frame == <<tab, topic_page, selected, send_form, messages, err,
                   err_time, receive_handle, recv_tasks, now, crashed, sent,
                   acked, written_at, group_selected, broker_items,
                   broker_selected, messages_lock, app_vars>>

\* consumer.lock() of TopicTab::refresh_matadata: the UI thread waits until
\* the Mutex is free and takes it.
TopicRefreshLock ==
    /\ Running
    /\ mode = "Refresh"
    /\ tab = "Topic"
    /\ refresh = Idle
    /\ consumer_lock = Free
    /\ consumer_lock' = UiThread
    /\ held_calls' = 0
    /\ refresh' = [Idle EXCEPT !.phase = "metadata"]
    /\ UNCHANGED <<mode, items, group_items, err_tasks>>
    /\ UNCHANGED refresh_frame

\* The arms of refresh_matadata that end it with an error: set_error, and the
\* return drops the guard.
RefreshFails ==
    /\ err_tasks' = TopicTab_set_error(CurrentTab, FetchError).err_tasks
    /\ consumer_lock' = Free
    /\ refresh' = Idle
    /\ mode' = "Tab"
    /\ UNCHANGED items

\* consumer.fetch_metadata under the guard; on Ok the list is cleared.
RefreshFetchMetadata(resp, ok) ==
    /\ Running
    /\ refresh.phase = "metadata"
    /\ ~ok => Len(err_tasks) < MaxErrTasks
    /\ held_calls' = held_calls + 1
    /\ IF ok
       THEN /\ items' = << >>
            /\ refresh' = [phase |-> "watermarks", pending |-> resp,
                           done |-> 0]
            /\ UNCHANGED <<consumer_lock, err_tasks, mode>>
       ELSE RefreshFails
    /\ UNCHANGED group_items
    /\ UNCHANGED refresh_frame

\* One consumer.fetch_watermarks under the same guard, for the next partition
\* of the first pending topic; the topic is pushed after its last partition.
RefreshFetchWatermarks(ok) ==
    /\ Running
    /\ refresh.phase = "watermarks"
    /\ refresh.pending # << >>
    /\ ~ok => Len(err_tasks) < MaxErrTasks
    /\ held_calls' = held_calls + 1
    /\ LET topic == Head(refresh.pending)
       IN IF ~ok THEN RefreshFails
          ELSE /\ IF refresh.done + 1 < Len(topic.partitions)
                  THEN /\ refresh' = [refresh EXCEPT !.done = @ + 1]
                       /\ UNCHANGED items
                  ELSE /\ refresh' = [refresh EXCEPT !.pending = Tail(@),
                                                     !.done = 0]
                       /\ items' = items \o PushTopics(<<topic>>, 0, 0).items
               /\ UNCHANGED <<consumer_lock, err_tasks, mode>>
    /\ UNCHANGED group_items
    /\ UNCHANGED refresh_frame

\* drop(consumer) at the end of refresh_matadata, after the last topic.
RefreshUnlock ==
    /\ Running
    /\ refresh.phase = "watermarks"
    /\ refresh.pending = << >>
    /\ consumer_lock' = Free
    /\ refresh' = Idle
    /\ mode' = "Tab"
    /\ UNCHANGED <<items, group_items, err_tasks, held_calls>>
    /\ UNCHANGED refresh_frame

\* consumer.lock() of GroupTab::refresh_matadata.
GroupRefreshLock ==
    /\ Running
    /\ mode = "Refresh"
    /\ tab = "Group"
    /\ refresh = Idle
    /\ consumer_lock = Free
    /\ consumer_lock' = UiThread
    /\ held_calls' = 0
    /\ refresh' = [Idle EXCEPT !.phase = "group_list"]
    /\ UNCHANGED <<mode, items, group_items, err_tasks>>
    /\ UNCHANGED refresh_frame

\* consumer.fetch_group_list under the guard and the rest of
\* GroupTab::refresh_matadata, whose return drops the guard.
GroupRefreshFetch(resp, ok) ==
    /\ Running
    /\ refresh.phase = "group_list"
    /\ ~ok => Len(err_tasks) < MaxErrTasks
    /\ held_calls' = held_calls + 1
    /\ LET r == GroupTab_refresh_matadata(group_items, resp, ok)
       IN /\ group_items' = r.items
          /\ err_tasks' = Shell_set_error(err_tasks, r.is_err, RefreshError)
    /\ consumer_lock' = Free
    /\ refresh' = Idle
    /\ mode' = "Tab"
    /\ UNCHANGED items
    /\ UNCHANGED refresh_frame

\* What every step of a receive task leaves alone.
recv_frame == <<mode, tab, topic_page, items, selected, send_form, err_time,
                receive_handle, err_tasks, now, crashed, sent, acked, refresh,
                app_vars>>

\* consumer.lock() at the top of the loop of recv_messages in task id.
RecvLock(id) ==
    /\ Running
    /\ id \in 1..Len(recv_tasks)
    /\ Alive(recv_tasks[id])
    /\ consumer_lock = Free
    /\ consumer_lock' = RecvTask(id)
    /\ held_calls' = 0
    /\ recv_tasks' = [recv_tasks EXCEPT ![id].state = "running"]
    /\ UNCHANGED <<messages, messages_lock, err, written_at>>
    /\ UNCHANGED recv_frame
    /\ UNCHANGED other_tabs

\* consumer.poll under the guard.  A message: messages.lock() is taken under
\* the guard and the message is pushed.  An error: the return drops the guard
\* and the task ends, writing the text to err.  Nothing in time: continue
\* drops the guard.
RecvPollLocked(id, polled) ==
    /\ Running
    /\ consumer_lock = RecvTask(id)
    /\ messages_lock # RecvTask(id)
    /\ held_calls' = held_calls + 1
    /\ CASE polled.kind = "message" ->
              /\ Len(messages) < MaxMsgs
              /\ messages_lock = Free
              /\ messages_lock' = RecvTask(id)
              /\ messages' = Append(messages, KafkaMessage_from(polled.message))
              /\ UNCHANGED <<consumer_lock, recv_tasks, err, written_at>>
         [] polled.kind = "error" ->
              /\ consumer_lock' = Free
              /\ recv_tasks' = [recv_tasks EXCEPT ![id].state = "finished"]
              /\ err' = Some(recv_end_text(TRUE, PollError))
              /\ written_at' = Some(now)
              /\ UNCHANGED <<messages, messages_lock>>
         [] OTHER ->
              /\ consumer_lock' = Free
              /\ UNCHANGED <<messages, messages_lock, recv_tasks, err,
                             written_at>>
    /\ UNCHANGED recv_frame
    /\ UNCHANGED other_tabs

\* drop(messages), and the end of the iteration drops the consumer guard.
RecvUnlock(id) ==
    /\ Running
    /\ consumer_lock = RecvTask(id)
    /\ messages_lock = RecvTask(id)
    /\ messages_lock' = Free
    /\ consumer_lock' = Free
    /\ UNCHANGED <<messages, recv_tasks, err, written_at, held_calls>>
    /\ UNCHANGED recv_frame
    /\ UNCHANGED other_tabs

\* A frame is drawn while a receive task may hold the buffer: the UI thread
\* is in no refresh, and on MessagesRecv it takes messages.lock() itself.
RenderUnlocked ==
    /\ mode # "Refresh"
    /\ topic_page = "MessagesRecv" => messages_lock = Free
    /\ Render

\* ------------------------------------------------------- the App of app.rs

\* The metadata App::new fetched: refresh_metadata rebuilds the lists from it.
AppMetadata == [brokers |-> <<B1, B2>>, topics |-> <<T1, T2>>]

\* App::new
App_new ==
    [mode |-> "Running", brokers |-> << >>, items |-> << >>,
     selected |-> None]

\* App::refresh_metadata
App_refresh_metadata(a) ==
    [a EXCEPT
       !.brokers = [i \in 1..Len(AppMetadata.brokers) |->
                      KafkaBroker_from(AppMetadata.brokers[i])],
       !.items = [i \in 1..Len(AppMetadata.topics) |->
                    KafkaTopic_from(AppMetadata.topics[i])]]

\* A loop that goes on after the mode is Quit.
App_is_running_ever(a) == TRUE

\* App::is_running
App_is_running(a) == a.mode # "Quit"

\* App::handle_key_press
App_handle_key_press(a, key) ==
    CASE key \in {"q", "Esc"} -> [a EXCEPT !.mode = "Quit"]
      [] key \in {"h", "Left"} -> [a EXCEPT !.selected = None]
      [] key \in {"j", "Down"} ->
           [a EXCEPT !.selected = ListState_select_next(@)]
      [] key \in {"k", "Up"} ->
           [a EXCEPT !.selected = ListState_select_previous(@)]
      [] key \in {"g", "Home"} ->
           [a EXCEPT !.selected = ListState_select_first(@)]
      [] key \in {"G", "End"} ->
           [a EXCEPT !.selected = ListState_select_last(@)]
      [] key = "r" -> App_refresh_metadata(a)
      [] OTHER -> a

\* The key events that arrive at the terminal of the App.
AppKeys == {"q", "j", "G", "r", "F1"}

\* What no step of the App touches: the tabs.
app_frame == <<mode, tab, err_tasks, topic_tab, other_tabs, locks>>

\* A key is pressed: the terminal queues the event.
KeyArrives(key) ==
    /\ Len(pending) < MaxPending
    /\ Len(handled) + Len(pending) < MaxHandled
    /\ pending' = Append(pending, key)
    /\ UNCHANGED <<app, app_pc, handled, iter_keys>>
    /\ UNCHANGED app_frame

\* App::run before its loop: self.refresh_metadata()?
AppStart ==
    /\ app_pc = "start"
    /\ app' = App_refresh_metadata(app)
    /\ app_pc' = "while"
    /\ UNCHANGED <<pending, handled, iter_keys>>
    /\ UNCHANGED app_frame

\* The head of the loop of App::run and terminal.draw: a frame is drawn while
\* is_running(), and run returns when it is not.  The list widget clamps the
\* selection.
AppDraw ==
    /\ app_pc = "while"
    /\ IF App_is_running(app)
       THEN /\ app' = [app EXCEPT !.selected = ListClamp(@, Len(app.items))]
            /\ app_pc' = "handle_events"
            /\ iter_keys' = 0
       ELSE /\ app_pc' = "returned"
            /\ UNCHANGED <<app, iter_keys>>
    /\ UNCHANGED <<pending, handled>>
    /\ UNCHANGED app_frame

\* App::handle_events: event::poll times out with no event, or event::read
\* takes the oldest event and handle_key_press handles it.
AppHandleEvents(timeout) ==
    /\ app_pc = "handle_events"
    /\ IF timeout \/ pending = << >>
       THEN UNCHANGED <<app, pending, handled, iter_keys>>
       ELSE /\ app' = App_handle_key_press(app, Head(pending))
            /\ pending' = Tail(pending)
            /\ handled' = Append(handled, Head(pending))
            /\ iter_keys' = iter_keys + 1
    /\ app_pc' = "while"
    /\ UNCHANGED app_frame

\* ---------------------------------------------------------- specifications

\* TopicTab::new, with the shell in its initial mode and tab.
Init ==
    /\ mode = "TabChoose"
    /\ tab = "Topic"
    /\ topic_page = "Normal"
    /\ items = << >>
    /\ selected = None
    /\ send_form = TopicSendForm_new("")
    /\ messages = << >>
    /\ err = None
    /\ err_time = None
    /\ receive_handle = None
    /\ recv_tasks = << >>
    /\ err_tasks = << >>
    /\ now = 0
    /\ crashed = FALSE
    /\ sent = None
    /\ acked = FALSE
    /\ written_at = None
    /\ group_items = << >>
    /\ group_selected = None
    /\ broker_items = << >>
    /\ broker_selected = None
    /\ consumer_lock = Free
    /\ messages_lock = Free
    /\ held_calls = 0
    /\ refresh = Idle
    /\ app = App_new
    /\ app_pc = "start"
    /\ pending = << >>
    /\ handled = << >>
    /\ iter_keys = 0

\* The keys of the sessions that browse and receive: every key but those
\* that edit the form's text or move in it (Left and Right are h and l
\* outside SendEdit).
BrowseKeys == BoundChars \cup {"Esc", "Enter", "Up", "Down", "Home", "End", "F1"}

NoFailure == [send_ok |-> TRUE, admin_ok |-> TRUE, started |-> FALSE]

\* The outcomes that matter to a key on the current page: whether a worker
\* starts the task matters to Enter on Messages alone.
StartedOutcomes(key) ==
    IF key = "Enter" /\ topic_page = "Messages" THEN BOOLEAN ELSE {FALSE}

\* Browsing and receiving: no call fails but consumer.poll.
Next ==
    \/ \E key \in {"Enter", "q"} : TabSelect(key)
    \/ \E key \in BrowseKeys : \E started \in StartedOutcomes(key) :
         KeyPress(key, [NoFailure EXCEPT !.started = started])
    \/ \E resp \in Responses : Refresh(resp, 0)
    \/ Render
    \/ \E id \in 1..MaxTasks, polled \in PollResults : RecvPoll(id, polled)

Spec == Init /\ [][Next]_vars

\* The keys of the sessions that raise errors: those that reach the receive
\* task, create a topic and refresh.
BandKeys == {"Enter", "Esc", "j", "l", "n", "r"}

\* The outcomes of admin.create_topics that matter to a key.
AdminOutcomes(key) == IF key = "n" THEN BOOLEAN ELSE {TRUE}

\* The error band: calls fail, set_error tasks run and time passes.
NextBand ==
    \/ TabSelect("Enter")
    \/ \E key \in BandKeys : \E started \in StartedOutcomes(key) :
         \E admin_ok \in AdminOutcomes(key) :
           /\ key = "Enter" /\ topic_page = "Messages"
                => Len(recv_tasks) < BandTasks
           /\ KeyPress(key, [send_ok |-> TRUE, admin_ok |-> admin_ok,
                             started |-> started])
    \/ \E resp \in Responses : \E fail \in 0..MetadataFails(resp) :
         Refresh(resp, fail)
    \/ \E id \in 1..MaxTasks : \E polled \in {[kind |-> "error"], [kind |-> "none"]} :
         RecvPoll(id, polled)
    \/ \E i \in 1..MaxErrTasks : ErrSet(i)
    \/ \E i \in 1..MaxErrTasks : ErrExpire(i)
    \/ Tick

SpecBand == Init /\ [][NextBand]_vars

\* A frame, whose bottom bar locks err to read the text.
BandRender == ErrFree /\ Render

\* The write of the receive task at its end, under the lock of err.
BandRecvPoll(id, polled) ==
    /\ polled.kind = "error" => ErrFree
    /\ RecvPoll(id, polled)

\* A second passes while no guard is held: a task that holds a guard takes
\* its next step, or waits for its next lock, before the clock moves.
BandTick == ErrFree /\ ErrTimeFree /\ Tick

\* The error band with its locks taken one by one: topic creation fails, the
\* receive task ends, set_error tasks run, frames are drawn and time passes.
NextBandLocks ==
    \/ TabSelect("Enter")
    \/ \E key \in BandKeys \ {"r"} : \E started \in StartedOutcomes(key) :
         \E admin_ok \in AdminOutcomes(key) :
           /\ key = "Enter" /\ topic_page = "Messages"
                => Len(recv_tasks) < BandTasks
           /\ KeyPress(key, [send_ok |-> TRUE, admin_ok |-> admin_ok,
                             started |-> started])
    \/ \E id \in 1..MaxTasks : \E polled \in {[kind |-> "error"], [kind |-> "none"]} :
         BandRecvPoll(id, polled)
    \/ \E i \in 1..MaxErrTasks : SetLockErr(i)
    \/ \E i \in 1..MaxErrTasks : SetLockTime(i)
    \/ \E i \in 1..MaxErrTasks : WakeLockTime(i)
    \/ \E i \in 1..MaxErrTasks : WakeLockErr(i)
    \/ BandRender
    \/ BandTick

SpecBandLocks == Init /\ [][NextBandLocks]_vars

\* The topic lists fetch_metadata reports in the sessions that refresh: in
\* the last one the topic of two partitions comes first.
RefreshResponses == Responses \cup {<<T2, T1>>}

\* The keys of the sessions that refresh: those that select a topic, open
\* and leave its pages, and refresh.
RefreshKeys == {"r", "g", "G", "j", "l", "Esc"}

\* Refreshing on a cluster whose topic list changes, where fetch_metadata
\* and every fetch_watermarks call may fail.
NextRefresh ==
    \/ TabSelect("Enter")
    \/ \E key \in RefreshKeys : KeyPress(key, NoFailure)
    \/ \E resp \in RefreshResponses : \E fail \in 0..MetadataFails(resp) :
         Refresh(resp, fail)
    \/ \E i \in 1..MaxErrTasks : ErrSet(i)
    \/ \E i \in 1..MaxErrTasks : ErrExpire(i)
    \/ Tick
    \/ Render

SpecRefresh == Init /\ [][NextRefresh]_vars

\* The keys of the sessions that use the consumer: those that refresh and
\* those that reach the receive task.
LockKeys == {"r", "g", "l", "j", "Enter", "Esc"}

\* The consumer lock: the refreshes of the Topics and Groups tabs on the UI
\* thread and a receive task on a worker thread, call by call.  Enter is
\* pressed to start the receive task only.
NextLocks ==
    \/ \E key \in {"Enter", "j", "k"} : TabSelect(key)
    \/ \E key \in LockKeys : \E started \in StartedOutcomes(key) :
         /\ key = "Enter" =>
              topic_page = "Messages" /\ Len(recv_tasks) < BandTasks
         /\ KeyPress(key, [NoFailure EXCEPT !.started = started])
    \/ \E key \in {"r", "Esc"} : GroupKeyPress(key)
    \/ TopicRefreshLock
    \/ \E resp \in Responses, ok \in BOOLEAN : RefreshFetchMetadata(resp, ok)
    \/ \E ok \in BOOLEAN : RefreshFetchWatermarks(ok)
    \/ RefreshUnlock
    \/ GroupRefreshLock
    \/ \E resp \in GroupResponses, ok \in BOOLEAN : GroupRefreshFetch(resp, ok)
    \/ \E id \in 1..MaxTasks : RecvLock(id)
    \/ \E id \in 1..MaxTasks, polled \in PollResults : RecvPollLocked(id, polled)
    \/ \E id \in 1..MaxTasks : RecvUnlock(id)
    \/ RenderUnlocked

SpecLocks == Init /\ [][NextLocks]_vars

\* The steps of the UI thread in a refresh of the Topics tab, and the steps
\* of the receive tasks on the worker threads.
UiRefreshStep ==
    \/ TopicRefreshLock
    \/ RefreshFetchMetadata(<<T1>>, TRUE)
    \/ RefreshFetchWatermarks(TRUE)
    \/ RefreshUnlock
RecvStep ==
    \/ \E id \in 1..MaxTasks : RecvLock(id)
    \/ \E id \in 1..MaxTasks, polled \in PollResults : RecvPollLocked(id, polled)
    \/ \E id \in 1..MaxTasks : RecvUnlock(id)

\* A refresh of the Topics tab next to a receive task.
NextWait ==
    \/ TabSelect("Enter")
    \/ \E key \in {"r", "g", "l", "j", "Enter"} :
         /\ key = "Enter" =>
              topic_page = "Messages" /\ Len(recv_tasks) < BandTasks
         /\ KeyPress(key, [NoFailure EXCEPT !.started = TRUE])
    \/ UiRefreshStep
    \/ RecvStep
    \/ RenderUnlocked

\* Both threads are scheduled: a thread that can take a step for good takes
\* one.  std::sync::Mutex promises no order among the threads that want it,
\* so a lock() that could return only now and then (the Mutex is free between
\* two rounds of the other thread, and taken again) has no promise to
\* return: the fairness of the threads is weak.
SpecWait ==
    Init /\ [][NextWait]_vars /\ WF_vars(UiRefreshStep) /\ WF_vars(RecvStep)

\* The App of app.rs: keys arrive at the terminal while run loops.
NextApp ==
    \/ \E key \in AppKeys : KeyArrives(key)
    \/ AppStart
    \/ AppDraw
    \/ \E timeout \in BOOLEAN : AppHandleEvents(timeout)

SpecApp == Init /\ [][NextApp]_vars

\* The outcomes of producer.send that matter to a key: submit is reached by
\* Enter in SendEdit.
SendOutcomes(key) ==
    IF key = "Enter" /\ topic_page = "SendEdit" THEN BOOLEAN ELSE {TRUE}

\* The keys of the sessions that edit and send: those that open the form of
\* a topic, and every key the form handles.
FormKeys == TypedChars \cup {"g", "l", "k", "i", "r", "Enter", "Tab", "Esc",
                             "Backspace", "Left", "Right", "F1"}

\* What the sessions that edit and send do not do: they start no receive
\* task (Enter on Messages), and they select a topic with g, not with k.
FormOffered(key) ==
    /\ key = "Enter" => topic_page # "Messages"
    /\ key = "k" => topic_page # "Normal"

\* Editing and sending on a cluster of one topic: producer.send may fail.
NextForm ==
    \/ TabSelect("Enter")
    \/ \E key \in FormKeys : \E send_ok \in SendOutcomes(key) :
         /\ FormOffered(key)
         /\ KeyPress(key, [NoFailure EXCEPT !.send_ok = send_ok])
    \/ Refresh(<<T1>>, 0)
    \/ Render

SpecForm == Init /\ [][NextForm]_vars

\* The keys of the sessions that type chars of one and of two bytes; Right
\* is not among them, so the cursor is moved by typing, Left, Backspace and
\* the change of field only.
WideKeys == {"1"} \cup WideChars \cup {"g", "l", "k", "i", "r", "Tab", "Esc",
                                      "Backspace", "Left"}

\* Editing with chars of one and of two bytes.
NextWide ==
    \/ TabSelect("Enter")
    \/ \E key \in WideKeys : FormOffered(key) /\ KeyPress(key, NoFailure)
    \/ Refresh(<<T1>>, 0)
    \/ Render

SpecWide == Init /\ [][NextWide]_vars

\* Editing and sending where Tab is pressed on the Message field only: the
\* Key and Partition fields are left by Enter.
NextEnter ==
    \/ TabSelect("Enter")
    \/ \E key \in FormKeys : \E send_ok \in SendOutcomes(key) :
         /\ FormOffered(key)
         /\ key = "Tab" => send_form.field = "Message"
         /\ KeyPress(key, [NoFailure EXCEPT !.send_ok = send_ok])
    \/ Refresh(<<T1>>, 0)
    \/ Render

SpecEnter == Init /\ [][NextEnter]_vars

\* The keys of the sessions that type, into the Message field, the chars
\* the Topics tab binds on its other pages.
RoutedKeys == BoundChars \cup {"Enter", "Esc", "Backspace", "Left"}

\* Typing the bound chars: a char is typed while the field is shorter than
\* MaxRouted.
NextRouted ==
    \/ TabSelect("Enter")
    \/ \E key \in RoutedKeys :
         /\ FormOffered(key)
         /\ topic_page = "SendEdit" /\ key \in CharKeys
              => Len(ActiveText(send_form)) < MaxRouted
         /\ KeyEvent(key, NoFailure)
    \/ Refresh(<<T1>>, 0)
    \/ Render

SpecRouted == Init /\ [][NextRouted]_vars

\* The partitions typed by the sessions that send to a partition with a long
\* number: i32::MAX, i32::MAX + 1, ten nines, and 1 after ten zeros.
LongPartitions ==
    {<<"2", "1", "4", "7", "4", "8", "3", "6", "4", "7">>,
     <<"2", "1", "4", "7", "4", "8", "3", "6", "4", "8">>,
     <<"9", "9", "9", "9", "9", "9", "9", "9", "9", "9">>,
     <<"0", "0", "0", "0", "0", "0", "0", "0", "0", "0", "1">>}

\* s is the beginning of t.
IsPrefix(s, t) == Len(s) <= Len(t) /\ SubSeq(t, 1, Len(s)) = s

\* What is typed in these sessions: one char of message, no key, and the
\* digits of one of the long partitions.
DigitsOffered(key) ==
    topic_page = "SendEdit" /\ key \in CharKeys \cup Digits =>
      CASE send_form.field = "Message" ->
             key = "1" /\ send_form.message = << >>
        [] send_form.field = "Key" -> FALSE
        [] OTHER ->
             /\ Len(send_form.partition) < MaxDigits
             /\ send_form.cursor_index = Len(send_form.partition)
             /\ \E t \in LongPartitions :
                  IsPrefix(Append(send_form.partition, key), t)

\* Sending to a partition with a long number.
NextDigits ==
    \/ TabSelect("Enter")
    \/ \E key \in Digits \cup {"g", "l", "k", "i", "r", "Tab", "Enter"} :
         /\ FormOffered(key)
         /\ DigitsOffered(key)
         /\ KeyEvent(key, NoFailure)
    \/ Refresh(<<T1>>, 0)
    \/ Render

SpecDigits == Init /\ [][NextDigits]_vars

\* The keys of the sessions that go from tab to tab.
ChooserKeys == {"j", "k", "Enter", "q", "Esc", "F1"}
ListKeys == {"q", "Esc", "r", "g", "G", "h", "j", "k", "F1"}

\* The three tabs: choosing one, moving in its list and refreshing it; the
\* fetches of the Groups and Brokers tabs may fail.
NextTabs ==
    \/ \E key \in ChooserKeys : TabSelect(key)
    \/ \E key \in {"q", "r", "j", "G"} : KeyPress(key, NoFailure)
    \/ \E resp \in Responses : Refresh(resp, 0)
    \/ Render
    \/ \E key \in ListKeys : GroupKeyPress(key)
    \/ \E key \in ListKeys : BrokerKeyPress(key)
    \/ \E resp \in GroupResponses : \E ok \in BOOLEAN : GroupRefresh(resp, ok)
    \/ \E resp \in BrokerResponses : \E ok \in BOOLEAN : BrokerRefresh(resp, ok)
    \/ GroupRender
    \/ BrokerRender

SpecTabs == Init /\ [][NextTabs]_vars

\* ------------------------------------------------------------------ claims

\* The receive tasks that can still poll the consumer.
AliveTasks == {id \in 1..Len(recv_tasks) : Alive(recv_tasks[id])}

\* C1: at most one receive task exists, and after every key handler that
\* ends on a page other than MessagesRecv no receive task is alive.
C1_AtMostOneTaskAndNoneOutsideRecv ==
    /\ Cardinality(AliveTasks) <= 1
    /\ topic_page # "MessagesRecv" => AliveTasks = {}

\* C2: whenever the page is MessagesRecv, the tab holds the handle of a
\* receive task that is alive and was not aborted, unless the consumer
\* reported an error and ended it.
C2_RecvPageHoldsAliveTask ==
    topic_page = "MessagesRecv" =>
        /\ IsSome(receive_handle)
        /\ LET task == recv_tasks[Unwrap(receive_handle)]
           IN \/ task.state = "finished"
              \/ Alive(task) /\ ~task.aborted

\* C3: while the page is not MessagesRecv, no step appends to the shared
\* message buffer.
C3_NoAppendOutsideRecv ==
    [][topic_page # "MessagesRecv" => messages' = messages]_vars

\* C4: the text of the error band is present if and only if its set_at is.
C4_TextIffSetAt == IsSome(err) <=> IsSome(err_time)

\* C5: every text on the error band self-clears: a text written more than
\* ERR_TTL seconds ago is no longer on the band, and neither is a set_at
\* that old.
C5_TextSelfClears ==
    /\ IsSome(err) => now - Unwrap(written_at) <= ERR_TTL
    /\ IsSome(err_time) => now - Unwrap(err_time) <= ERR_TTL

\* C6: a text on the error band is cleared only when it is ERR_TTL seconds
\* old: the expiry of an older error does not clear a newer text early.
C6_NoEarlyClear ==
    [][IsSome(err) /\ err' = None => now - Unwrap(written_at) >= ERR_TTL]_vars

\* The step of a key in SendEdit.
EditStep(key) ==
    /\ topic_page = "SendEdit"
    /\ \E in \in Outcomes : KeyPress(key, in)

\* The step of a submit: Enter in SendEdit with the Message field active.
SubmitStep == send_form.field = "Message" /\ EditStep("Enter")

\* The text of the message, key and partition fields, and the cursor.
FormContents(f) == <<f.message, f.key, f.partition, f.cursor_index>>

\* The error the claims expect of a submit with an empty message or key.
EmptyError == "Message or key is empty"

\* The error band, or a set_error task on its way to it, or the form's own
\* error line has the text.
Raised(band, tasks, f, text) ==
    \/ band = Some(text)
    \/ \E i \in 1..Len(tasks) : tasks[i].text = text
    \/ f.err = Some(text)

\* C7: a submit with an empty message or an empty key is rejected with the
\* error "Message or key is empty": nothing is sent, the page stays SendEdit
\* and the fields are unchanged; a submit with both is handed to the producer.
C7_SubmitRejectsEmpty ==
    [][SubmitStep =>
         IF send_form.message = << >> \/ send_form.key = << >>
         THEN /\ sent' = None
              /\ topic_page' = "SendEdit"
              /\ FormContents(send_form') = FormContents(send_form)
              /\ Raised(err', err_tasks', send_form', EmptyError)
         ELSE IsSome(sent')]_vars

\* C8: after a submit the broker acknowledged, the message, key and
\* partition fields are empty, the cursor is 0 and the page is Messages.
C8_AckedSubmitClearsForm ==
    acked =>
        /\ FormContents(send_form) = <<<< >>, << >>, << >>, 0>>
        /\ topic_page = "Messages"

\* C8's case: a submit with a message, a key and a partition was acknowledged.
C8_Witness ==
    /\ acked
    /\ IsSome(sent)
    /\ Unwrap(sent).payload # << >>
    /\ IsSome(Unwrap(sent).key)
    /\ IsSome(Unwrap(sent).partition)

\* C9: a submit whose produce fails raises the error onto the error band (a
\* set_error task is spawned with it), the page stays SendEdit, and the
\* message, key, partition and cursor are as before.
C9_FailedProduceRaisesError ==
    [][SubmitStep /\ IsSome(sent') /\ ~acked' =>
         /\ topic_page' = "SendEdit"
         /\ FormContents(send_form') = FormContents(send_form)
         /\ \/ err' = Some(ProduceError)
            \/ \E i \in 1..Len(err_tasks') :
                 err_tasks'[i].text = ProduceError]_vars

\* The partition field after the step is the one before it with c inserted.
InsertedInPartition(c) ==
    \E n \in 0..Len(send_form.partition) :
        send_form'.partition =
            SubSeq(send_form.partition, 1, n) \o <<c>>
              \o SubSeq(send_form.partition, n + 1, Len(send_form.partition))

\* C10: a char typed while the Partition field is active is inserted into
\* the field if and only if it is a decimal digit, a rejected char changes
\* neither the field nor the cursor, and the field holds digits only.
C10_PartitionTakesDigitsOnly ==
    /\ [][\A c \in TypedChars :
            send_form.field = "Partition" /\ EditStep(c) =>
                IF is_digit(c) THEN InsertedInPartition(c)
                ELSE send_form' = send_form]_vars
    /\ [](\A i \in 1..Len(send_form.partition) :
            is_digit(send_form.partition[i]))

\* The position of a tab in the order Topic, Group, Broker.
Position(t) == CHOOSE i \in 1..Len(Tabs) : Tabs[i] = t

\* C11: Tab::next and Tab::prev are saturating over Topic, Group, Broker:
\* prev(Topic) = Topic, next(Broker) = Broker, otherwise they move by one
\* position, so j and k in TabChoose never wrap around.
C11_TabsSaturate ==
    /\ [](/\ Tab_prev("Topic") = "Topic"
          /\ Tab_next("Broker") = "Broker"
          /\ \A i \in 1..(Len(Tabs) - 1) :
               /\ Tab_next(Tabs[i]) = Tabs[i + 1]
               /\ Tab_prev(Tabs[i + 1]) = Tabs[i])
    /\ [][/\ TabSelect("j") =>
               Position(tab') = IF Position(tab) = Len(Tabs) THEN Len(Tabs)
                                ELSE Position(tab) + 1
          /\ TabSelect("k") =>
               Position(tab') = IF Position(tab) = 1 THEN 1
                                ELSE Position(tab) - 1]_vars

\* C11's case: j was pressed twice in TabChoose and the last tab is chosen.
C11_Witness == mode = "TabChoose" /\ tab = "Broker"

\* The topics, groups and brokers of a response, item by item.
SameTopics(its, resp) ==
    /\ Len(its) = Len(resp)
    /\ \A i \in 1..Len(resp) :
         /\ its[i].name = resp[i].name
         /\ Len(its[i].partitions) = Len(resp[i].partitions)
         /\ \A p \in 1..Len(resp[i].partitions) :
              /\ its[i].partitions[p].id = resp[i].partitions[p].id
              /\ its[i].partitions[p].leader = resp[i].partitions[p].leader
SameGroups(its, resp) ==
    /\ Len(its) = Len(resp)
    /\ \A i \in 1..Len(resp) :
         /\ its[i].name = resp[i].name
         /\ its[i].state = resp[i].state
         /\ Len(its[i].members) = Len(resp[i].members)
         /\ \A m \in 1..Len(resp[i].members) :
              its[i].members[m].id = resp[i].members[m].id
SameBrokers(its, resp) ==
    /\ Len(its) = Len(resp)
    /\ \A i \in 1..Len(resp) :
         /\ its[i].host = resp[i].host
         /\ its[i].port = resp[i].port

\* C12: after every refresh that completes without error, the list of the
\* tab is the broker's latest response mapped item by item in its order,
\* whatever the list held before.
C12_RefreshReplaces ==
    [][/\ \A resp \in Responses :
            Refresh(resp, 0) => SameTopics(items', resp)
       /\ \A resp \in GroupResponses :
            GroupRefresh(resp, TRUE) => SameGroups(group_items', resp)
       /\ \A resp \in BrokerResponses :
            BrokerRefresh(resp, TRUE) => SameBrokers(broker_items', resp)]_vars

\* C12's case: the three tabs were refreshed, the groups to a shorter list.
C12_Witness ==
    /\ Len(items) = 2
    /\ Len(group_items) = 1
    /\ Len(broker_items) = 2

\* C13: in TabChoose, j and k move the tab and keep the mode, Enter sets the
\* mode to Tab and keeps the tab, q and Esc set the mode to Quit, and any
\* other key changes neither.
C13_TabChooseKeys ==
    [][\A key \in ChooserKeys :
         TabSelect(key) =>
           CASE key = "j" -> tab' = Tab_next(tab) /\ mode' = "TabChoose"
             [] key = "k" -> tab' = Tab_prev(tab) /\ mode' = "TabChoose"
             [] key = "Enter" -> tab' = tab /\ mode' = "Tab"
             [] key \in {"q", "Esc"} -> mode' = "Quit"
             [] OTHER -> tab' = tab /\ mode' = "TabChoose"]_vars

\* C13's case: the chooser moved to another tab with j and entered it.
C13_Witness == mode = "Tab" /\ tab = "Group"

\* The step of a key in the Topics tab.
Pressed(key) == \E in \in Outcomes : KeyPress(key, in)

\* The detail pages that j and k cycle through.
CyclePages == {"Info", "Messages", "Send"}

\* C14: on the detail pages j and Down move Info -> Messages -> Send ->
\* Info and k and Up move Info -> Send -> Messages -> Info, MessagesRecv
\* counting as Messages; on Info, Messages and Send k undoes j and j undoes k.
C14_PageCycle ==
    /\ [][/\ \A key \in {"j", "Down"} :
               Pressed(key) =>
                 CASE topic_page = "Info" -> topic_page' = "Messages"
                   [] topic_page \in {"Messages", "MessagesRecv"} ->
                        topic_page' = "Send"
                   [] topic_page = "Send" -> topic_page' = "Info"
                   [] OTHER -> TRUE
          /\ \A key \in {"k", "Up"} :
               Pressed(key) =>
                 CASE topic_page = "Info" -> topic_page' = "Send"
                   [] topic_page \in {"Messages", "MessagesRecv"} ->
                        topic_page' = "Info"
                   [] topic_page = "Send" -> topic_page' = "Messages"
                   [] OTHER -> TRUE]_vars
    /\ [](\A page \in CyclePages :
            LET t == [CurrentTab EXCEPT !.topic_page = page]
            IN /\ select_previous(select_next(t)).topic_page = page
               /\ select_next(select_previous(t)).topic_page = page)

\* C14's case: the page Send was reached with a receive task behind it, by j
\* on MessagesRecv or around the cycle.
C14_Witness == topic_page = "Send" /\ recv_tasks # << >>

\* C15 as stated: q or Esc on any page other than Normal sets the page to
\* Normal and returns mode Tab, and returns TabChoose only on Normal.
C15_EscapeToNormal ==
    [][\A key \in {"q", "Esc"} :
         Pressed(key) =>
           /\ topic_page # "Normal" =>
                topic_page' = "Normal" /\ mode' = "Tab"
           /\ mode' = "TabChoose" => topic_page = "Normal"]_vars

\* C15 amended: q or Esc on Info, Messages, MessagesRecv and Send sets the
\* page to Normal and returns mode Tab; on SendEdit the key goes to the form,
\* where Esc sets the page to Send and q is typed, leaving the page SendEdit,
\* both in mode Tab; on Normal they return TabChoose and the page stays.
C15_EscapeByPage ==
    [][\A key \in {"q", "Esc"} :
         Pressed(key) =>
           CASE topic_page = "Normal" ->
                  topic_page' = "Normal" /\ mode' = "TabChoose"
             [] topic_page = "SendEdit" ->
                  /\ mode' = "Tab"
                  /\ topic_page' = IF key = "Esc" THEN "Send" ELSE "SendEdit"
             [] OTHER -> topic_page' = "Normal" /\ mode' = "Tab"]_vars

\* C15's case: Esc in SendEdit left an edited form on the page Send.
C15_Witness == topic_page = "Send" /\ send_form.message # << >>

\* C16: after any sequence of editing keys in SendEdit the cursor lies within
\* the active field's text, 0 <= cursor <= length; Left at 0 and Right at the
\* end of the field leave the cursor unchanged, and otherwise they move it by
\* exactly one.
C16_CursorWithinField ==
    /\ [](topic_page = "SendEdit" =>
            /\ send_form.cursor_index >= 0
            /\ send_form.cursor_index <= ByteLen(ActiveText(send_form)))
    /\ [][topic_page = "SendEdit" =>
            /\ Pressed("Left") =>
                 send_form'.cursor_index =
                   IF send_form.cursor_index = 0 THEN 0
                   ELSE send_form.cursor_index - 1
            /\ Pressed("Right") =>
                 send_form'.cursor_index =
                   IF send_form.cursor_index = ByteLen(ActiveText(send_form))
                   THEN send_form.cursor_index
                   ELSE send_form.cursor_index + 1]_vars

\* The step leaves the program running in the mode it would have had, with
\* the text on the error band or in a set_error task on its way to it.
LandsOnBand(text) ==
    /\ ~crashed'
    /\ mode' # "Quit"
    /\ \/ err' = Some(text)
       \/ \E i \in 1..Len(err_tasks') : err_tasks'[i].text = text

\* C17: a failure of a broker operation (metadata fetch, watermark fetch,
\* group-list fetch, create-topic, produce, poll) never terminates the
\* program and never sets the mode to Quit: its text lands on the error band
\* and the program goes on handling keys.
C17_FailuresLandOnBand ==
    [][/\ SubmitStep /\ IsSome(sent') /\ ~acked' => LandsOnBand(ProduceError)
       /\ (\E in \in Outcomes : ~in.admin_ok /\ KeyPress("n", in)) =>
            LandsOnBand(CreateError)
       /\ (\E resp \in Responses : \E fail \in 1..MetadataFails(resp) :
             Refresh(resp, fail)) => LandsOnBand(FetchError)
       /\ (\E resp \in GroupResponses : GroupRefresh(resp, FALSE)) =>
            LandsOnBand(RefreshError)
       /\ (\E resp \in BrokerResponses : BrokerRefresh(resp, FALSE)) =>
            LandsOnBand(RefreshError)
       /\ (\E id \in 1..MaxTasks : RecvPoll(id, [kind |-> "error"])) =>
            LandsOnBand(PollError)]_vars

\* The topics of a response whose watermarks were all fetched before the
\* call number fail: the longest prefix with fewer than fail partitions.
RebuiltBefore(resp, fail) ==
    LET k == CHOOSE k \in 0..Len(resp) :
                 /\ WatermarkFetches(SubSeq(resp, 1, k)) < fail
                 /\ k < Len(resp) =>
                      WatermarkFetches(SubSeq(resp, 1, k + 1)) >= fail
    IN SubSeq(resp, 1, k)

\* C18: when a watermark fetch fails during a Topics refresh, the refresh
\* stops at once (the failing call is the last fetch_watermarks call), the
\* error is raised onto the error band, and the topic list holds the topics
\* rebuilt before the failure and nothing else; the next refresh that
\* succeeds replaces the list by the whole response.
C18_WatermarkFailureStopsRefresh ==
    /\ [](\A resp \in RefreshResponses : \A fail \in 1..WatermarkFetches(resp) :
            PushTopics(resp, 0, fail).fetches = fail)
    /\ [][\A resp \in RefreshResponses :
            /\ \A fail \in 1..WatermarkFetches(resp) :
                 Refresh(resp, fail) =>
                   /\ SameTopics(items', RebuiltBefore(resp, fail))
                   /\ err_tasks' =
                        Append(err_tasks, [text |-> FetchError,
                                           phase |-> "spawned", wake |-> 0])
                   /\ ~crashed'
            /\ Refresh(resp, 0) => SameTopics(items', resp)]_vars

\* C18's case: the list holds the topic of two partitions alone, which no
\* response does: the refresh of <<T2, T1>> failed at the watermarks of T1,
\* and the error is on its way to the band.
C18_Witness ==
    /\ Len(items) = 1
    /\ items[1].name = "t2"
    /\ \E i \in 1..Len(err_tasks) : err_tasks[i].text = FetchError

\* The selected index is out of range for the list.
OutOfRange(sel, its) == IsSome(sel) /\ Unwrap(sel) >= Len(its)

\* C19: a selected index that is out of range for the list is treated as
\* nothing selected, by the frames and by the keys: no frame indexes the list
\* out of bounds (it ends without a panic and leaves a selection within the
\* list), and a key pressed with such an index opens no detail page, starts
\* no receive task and opens no send form.
C19_OutOfRangeIsNoSelection ==
    [][/\ Render => ~crashed' /\ ~OutOfRange(selected', items')
       /\ OutOfRange(selected, items) /\ (\E key \in Keys : Pressed(key)) =>
            /\ topic_page' \in {topic_page, "Normal"}
            /\ recv_tasks' = recv_tasks
            /\ receive_handle' = receive_handle]_vars

\* C20: the consumer is used by one caller at a time, under its lock, and a
\* caller holds the lock for exactly one broker call: it makes no second call
\* under it and holds no other lock with it.
C20_OneCallPerLock ==
    /\ refresh # Idle => consumer_lock = UiThread
    /\ held_calls <= 1
    /\ consumer_lock # Free => messages_lock # consumer_lock

\* C21: an accepted submit, made while a topic of the list is selected, sends
\* exactly one record: its topic is the topic selected in the list, its payload the message text, its key the key text,
\* its partition the parsed partition text, or none when that text is empty;
\* whatever frames were or were not drawn since the selection changed.
C21_RecordForSelectedTopic ==
    [][SubmitStep /\ acked' /\ IsSome(selected)
                  /\ ~OutOfRange(selected, items) =>
         /\ IsSome(sent')
         /\ Unwrap(sent').topic = items[Unwrap(selected) + 1].name
         /\ Unwrap(sent').payload = send_form.message
         /\ Unwrap(sent').key =
              IF send_form.key # << >> THEN Some(send_form.key) ELSE None
         /\ Unwrap(sent').partition =
              IF send_form.partition # << >>
              THEN Some(DecimalValue(send_form.partition)) ELSE None]_vars

\* C22: whenever a receive task ends, the error band is updated in that
\* step: with the text of the poll error when the task ended by an error,
\* and with the literal "Recv messages finished" when it ended otherwise.
C22_TaskEndUpdatesBand ==
    [][\A id \in 1..Len(recv_tasks') :
         /\ id \in 1..Len(recv_tasks) => Alive(recv_tasks[id])
         /\ ~Alive(recv_tasks'[id])
         => err' = Some(recv_end_text(recv_tasks'[id].state = "finished",
                                     PollError))]_vars

\* The record is the complete Message record of the polled message m.
CompleteRecord(r, m) ==
    /\ DOMAIN r = {"offset", "payload", "key"}
    /\ r.offset = m.offset
    /\ r.payload \in {m.payload.text, "Unknown"}
    /\ r.key \in {m.key.text, "Unknown"}

\* C23: the receive task appends exactly one complete record to the shared
\* buffer for each message poll returns, in poll order; a poll that times out
\* appends nothing and the task goes on; the first poll error ends the task,
\* and a task that ended appends nothing.  The buffer changes only under
\* its lock and a frame reads it only while nobody holds that lock, so a
\* frame sees complete records only.
C23_OneRecordPerMessage ==
    [][/\ \A id \in 1..MaxTasks : \A polled \in PollResults :
            RecvPollLocked(id, polled) =>
              CASE polled.kind = "message" ->
                     /\ Len(messages') = Len(messages) + 1
                     /\ SubSeq(messages', 1, Len(messages)) = messages
                     /\ CompleteRecord(messages'[Len(messages')],
                                       polled.message)
                     /\ Alive(recv_tasks'[id])
                [] polled.kind = "error" ->
                     /\ messages' = messages
                     /\ recv_tasks'[id].state = "finished"
                [] OTHER ->
                     /\ messages' = messages
                     /\ Alive(recv_tasks'[id])
       /\ messages' # messages =>
            /\ messages_lock = Free
            /\ \E id \in AliveTasks : /\ consumer_lock = RecvTask(id)
                                      /\ messages_lock' = RecvTask(id)
       /\ RenderUnlocked /\ topic_page = "MessagesRecv" =>
            /\ messages_lock = Free
            /\ \A i \in 1..Len(messages) :
                 \E m \in BrokerMessages : CompleteRecord(messages[i], m)]_vars

\* C23's case: two messages were polled and appended in that order, and then
\* a poll error ended the task.
C23_Witness ==
    /\ Len(messages) = 2
    /\ messages[1].offset = 8
    /\ messages[2].offset = 7
    /\ \E id \in 1..Len(recv_tasks) : recv_tasks[id].state = "finished"

\* C24: key events are handled one at a time in arrival order: an iteration
\* of the loop handles at most one, a key is handled whole (its refresh
\* included) in the step that reads it, between two frames, and once the mode
\* is Quit no event is handled and no frame is drawn.
C24_OneKeyAtATime ==
    /\ [](iter_keys <= 1)
    /\ [][/\ handled' # handled =>
               /\ app_pc = "handle_events" /\ app_pc' = "while"
               /\ pending # << >>
               /\ handled' = Append(handled, Head(pending))
               /\ pending' = Tail(pending)
               /\ app' = App_handle_key_press(app, Head(pending))
               /\ Head(pending) = "r" =>
                    Len(app'.items) = Len(AppMetadata.topics)
          /\ app' # app => app_pc \in {"start", "while", "handle_events"}
          /\ app.mode = "Quit" =>
               /\ handled' = handled
               /\ app' = app
               /\ app_pc' \in {"while", "returned"}]_vars

\* C24's case: after three keys in their order of arrival, the last one q,
\* run has returned.
C24_Witness ==
    /\ app.mode = "Quit"
    /\ app_pc = "returned"
    /\ handled = <<"r", "G", "q">>

\* C25: a frame drawn on Send or SendEdit while a topic is selected: when the
\* selected topic's name differs from the form's topic, the form's topic
\* becomes that name and message, key, partition and cursor are cleared (the
\* active field and the form's error line stay); when the names are equal
\* the form is unchanged.
C25_RenderRebindsForm ==
    [][Render /\ topic_page \in {"Send", "SendEdit"} /\ ~crashed'
              /\ IsSome(selected') =>
         LET current_topic == items[Unwrap(selected') + 1].name
         IN IF send_form.topic # current_topic
            THEN /\ send_form'.topic = current_topic
                 /\ FormContents(send_form') = <<<< >>, << >>, << >>, 0>>
                 /\ send_form'.field = send_form.field
                 /\ send_form'.err = send_form.err
            ELSE send_form' = send_form]_vars

\* C25's case: a form that was edited and failed to send while bound to no
\* topic was bound to the selected topic by a frame, and is empty.
C25_Witness ==
    /\ topic_page = "SendEdit"
    /\ send_form.topic = "t1"
    /\ send_form.err = Some(ProduceError)
    /\ FormContents(send_form) = <<<< >>, << >>, << >>, 0>>
    /\ ~acked

\* C26: when the group-list fetch of a Groups refresh or the metadata fetch
\* of a Brokers refresh fails, the refresh returns an error (which the shell
\* hands to the error band) and the tab's list and selection are as before.
C26_FailedRefreshKeepsList ==
    [][/\ \A resp \in GroupResponses :
            GroupRefresh(resp, FALSE) =>
              /\ GroupTab_refresh_matadata(group_items, resp, FALSE).is_err
              /\ group_items' = group_items
              /\ group_selected' = group_selected
              /\ err_tasks' # err_tasks
       /\ \A resp \in BrokerResponses :
            BrokerRefresh(resp, FALSE) =>
              /\ BrokerTab_refresh_matadata(broker_items, resp, FALSE).is_err
              /\ broker_items' = broker_items
              /\ broker_selected' = broker_selected
              /\ err_tasks' # err_tasks]_vars

\* C26's case: with lists and selections in both tabs, a refresh of the
\* groups and one of the brokers failed.
C26_Witness ==
    /\ Len(group_items) = 2 /\ IsSome(group_selected)
    /\ Len(broker_items) = 2 /\ IsSome(broker_selected)
    /\ Len(err_tasks) = 2
    /\ \A i \in 1..2 : err_tasks[i].text = RefreshError
    /\ tab = "Broker" /\ mode = "Tab"

\* C27: Backspace in SendEdit with the cursor above 0 removes the char just
\* before the cursor from the active field and moves the cursor back by one;
\* with the cursor at 0 it changes nothing.  The other two fields, and the
\* active field, stay as they are.
C27_BackspaceRemovesBefore ==
    [][topic_page = "SendEdit" /\ Pressed("Backspace") =>
         LET s == ActiveText(send_form)
             c == send_form.cursor_index
         IN /\ ~crashed'
            /\ topic_page' = "SendEdit"
            /\ IF c = 0 THEN send_form' = send_form
               ELSE /\ c <= Len(s)
                    /\ send_form' =
                         [WithActiveText(send_form,
                              SubSeq(s, 1, c - 1) \o SubSeq(s, c + 1, Len(s)))
                          EXCEPT !.cursor_index = c - 1]]_vars

\* The field after each field in the cycle Message -> Key -> Partition ->
\* Message.
FieldAfter(field) ==
    CASE field = "Message" -> "Key"
      [] field = "Key" -> "Partition"
      [] field = "Partition" -> "Message"

\* The form f with field active and the cursor at the end of its text.
AtEndOf(f, field) ==
    LET g == [f EXCEPT !.field = field]
    IN [g EXCEPT !.cursor_index = ByteLen(ActiveText(g))]

\* C28: Tab in SendEdit makes the next field of the cycle Message -> Key ->
\* Partition -> Message the active one (three Tabs come back to the field
\* they started from) and puts the cursor at the length of that field's
\* text; the text of no field changes and the page stays SendEdit.
C28_TabCyclesFields ==
    [][topic_page = "SendEdit" /\ Pressed("Tab") =>
         /\ send_form' = AtEndOf(send_form, FieldAfter(send_form.field))
         /\ FieldAfter(FieldAfter(FieldAfter(send_form.field)))
              = send_form.field
         /\ topic_page' = "SendEdit"
         /\ mode' = "Tab"
         /\ ~crashed'
         /\ sent' = << >>]_vars

\* C28's case: the Key field was typed in after a Tab from the Message
\* field, and two more Tabs came back to the Message field, which holds a
\* char of two bytes: the cursor is at 2.
C28_Witness ==
    /\ topic_page = "SendEdit"
    /\ send_form.field = "Message"
    /\ send_form.message = <<"é">>
    /\ send_form.key = <<"1">>
    /\ send_form.cursor_index = 2
    /\ ~crashed

\* C29: Enter in SendEdit while the Key or the Partition field is active
\* does what Tab does: the next field becomes active with the cursor at its
\* end, nothing is sent and the page stays SendEdit.  Of all keys only Enter
\* on the Message field hands a record to the producer, and with a message
\* and a partition that parses it does.
C29_EnterOffMessageIsTab ==
    [][topic_page = "SendEdit" =>
         /\ send_form.field # "Message" /\ Pressed("Enter") =>
              /\ send_form' = change_field(send_form)
              /\ send_form' = AtEndOf(send_form, FieldAfter(send_form.field))
              /\ sent' = None /\ ~acked'
              /\ topic_page' = "SendEdit"
              /\ mode' = "Tab"
              /\ err_tasks' = err_tasks
              /\ ~crashed'
         /\ IsSome(sent') =>
              \A key \in Keys :
                Pressed(key) => key = "Enter" /\ send_form.field = "Message"
         /\ send_form.field = "Message" /\ send_form.message # << >>
              /\ ~crashed' /\ Pressed("Enter") =>
              sent' = Some(BuildRecord(send_form))]_vars

\* C29's case: Tab is pressed on the Message field only, and all three
\* fields were typed in: Enter left the Key field and then the Partition
\* field, and the form is back on the Message field without having sent.
C29_Witness ==
    /\ topic_page = "SendEdit"
    /\ send_form.field = "Message"
    /\ send_form.message = <<"1">>
    /\ send_form.key = <<"q">>
    /\ send_form.partition = <<"1">>
    /\ send_form.cursor_index = 1
    /\ send_form.err = None
    /\ sent = None
    /\ ~crashed

\* C30: Esc in SendEdit sets the page to Send, sends nothing and leaves the
\* message, the key, the partition, the active field and the cursor as they
\* are; i or Enter on Send then sets the page to SendEdit with the form as
\* it is, so the edit goes on where it was left.
C30_EscKeepsEdit ==
    [][/\ topic_page = "SendEdit" /\ Pressed("Esc") =>
            /\ topic_page' = "Send"
            /\ send_form' = send_form
            /\ sent' = None /\ ~acked'
            /\ mode' = "Tab"
            /\ err_tasks' = err_tasks
            /\ ~crashed'
       /\ topic_page = "Send" /\ (Pressed("i") \/ Pressed("Enter")) =>
            /\ topic_page' = "SendEdit"
            /\ send_form' = send_form
            /\ sent' = None
            /\ mode' = "Tab"
            /\ ~crashed']_vars

\* C30's case: the page is Send with the Key field active and text in the
\* Message and Key fields: the edit was left by Esc, the one key that leaves
\* SendEdit while a field other than Message is active.
C30_Witness ==
    /\ topic_page = "Send"
    /\ send_form.field = "Key"
    /\ send_form.message = <<"1">>
    /\ send_form.key = <<"q">>
    /\ send_form.cursor_index = 1
    /\ ~crashed

\* A key event of the Topics tab, whatever the calls of its handler return.
Routed(key) == \E in \in Outcomes : KeyEvent(key, in)

\* C31: while the page is SendEdit every key goes to the send form: q, r,
\* n, h, j, k, l, g and G leave the selection as it is, start no refresh and
\* no topic creation and do not leave the tab; whatever the key, the handler
\* returns mode Tab and the page after it is SendEdit, Send or Messages.
C31_SendEditRoutesKeys ==
    [][topic_page = "SendEdit" =>
         /\ \A key \in BoundChars :
              Routed(key) =>
                /\ selected' = selected
                /\ items' = items
                /\ err_tasks' = err_tasks
                /\ tab' = tab
                /\ topic_page' = "SendEdit"
                /\ \E r \in {enter_char(send_form, key)} :
                     IF r.panic THEN crashed' ELSE send_form' = r.form
         /\ \A key \in Keys :
              Routed(key) =>
                /\ mode' = "Tab"
                /\ topic_page' \in {"SendEdit", "Send", "Messages"}]_vars

\* C31's case: the Message field holds an r typed in SendEdit, and no
\* refresh was started.
C31_Witness ==
    /\ topic_page = "SendEdit"
    /\ send_form.message = <<"r">>
    /\ mode = "Tab"
    /\ err_tasks = << >>
    /\ IsSome(selected)
    /\ ~crashed

\* A topic of the list is selected.
TopicSelected(sel, its) == IsSome(sel) /\ ~OutOfRange(sel, its)

\* C32: l, Right or Enter on the Normal page opens Info if a topic is
\* selected and leaves the page Normal if none is; the page becomes SendEdit
\* only from Send, by Enter or i.
C32_DetailNeedsSelection ==
    [][/\ topic_page = "Normal" =>
            \A key \in {"l", "Right", "Enter"} :
              Pressed(key) =>
                topic_page' = IF TopicSelected(selected, items)
                              THEN "Info" ELSE "Normal"
       /\ topic_page # "SendEdit" /\ topic_page' = "SendEdit" =>
            /\ topic_page = "Send"
            /\ Pressed("i") \/ Pressed("Enter")]_vars

\* Two users of the error band wait on each other: one holds the guard of
\* err and waits for err_time, another holds the guard of err_time and waits
\* for err.
BandDeadlocked ==
    \E i, j \in 1..Len(err_tasks) :
      /\ err_tasks[i].phase = "has_err"
      /\ err_tasks[j].phase = "wants_err"

\* C33: the users of the error band (the set_error tasks, the write of the
\* receive task at its end and the bottom bar of a frame) never wait on each
\* other forever: err and err_time are locked in one order, so the lock of
\* err that a frame needs is always released again.
C33_BandNeverDeadlocks == ~BandDeadlocked

\* C34: whenever the page is not Normal, a topic is selected and its index
\* is within the topic list, whatever keys were pressed, whatever the
\* refreshes reported and whatever frames were drawn.
C34_DetailHasTopic ==
    topic_page # "Normal" => TopicSelected(selected, items)

\* C35: of two errors raised one after the other the band ends up with the
\* second: the task of an error never writes its text once the task of an
\* error raised after it, with another text, has written its own.  (The
\* tasks stand in err_tasks in the order in which set_error was called.)
C35_LaterErrorWins ==
    [][\A i \in 1..Len(err_tasks) :
         ErrSet(i) =>
           \A j \in (i + 1)..Len(err_tasks) :
             err_tasks[j].text # err_tasks[i].text
               => err_tasks[j].phase = "spawned"]_vars

\* C36: a refresh of the Topics tab requested while a receive task runs
\* gets the consumer lock and ends: the rounds of the receive task, each
\* locking, polling and unlocking, do not keep the UI thread waiting forever.
C36_RefreshGetsConsumer ==
    (/\ mode = "Refresh" /\ tab = "Topic"
     /\ \E id \in 1..Len(recv_tasks) : recv_tasks[id].state = "running")
      ~> (mode # "Refresh")

\* C37: a submit with a partition field that is not empty, whatever digits
\* it holds, does not end the program: the partition handed to the producer
\* is a 32-bit integer, or the submit is rejected with an error.
C37_LongPartitionIsSafe ==
    [][SubmitStep /\ send_form.message # << >>
         /\ send_form.partition # << >> =>
         /\ ~crashed'
         /\ \/ /\ IsSome(sent')
               /\ IsSome(Unwrap(sent').partition)
               /\ Unwrap(Unwrap(sent').partition) \in 0..I32_MAX
            \/ /\ sent' = None
               /\ \/ IsSome(send_form'.err)
                  \/ err_tasks' # err_tasks]_vars

\* The topic it of the list is the topic of the response with the watermarks
\* of every partition fetched.
FullyFetched(it, topic) ==
    /\ it.name = topic.name
    /\ Len(it.partitions) = Len(topic.partitions)
    /\ \A p \in 1..Len(it.partitions) :
         /\ it.partitions[p].id = topic.partitions[p].id
         /\ it.partitions[p].low = Watermarks(it.name, it.partitions[p].id).low
         /\ it.partitions[p].high = Watermarks(it.name, it.partitions[p].id).high
         /\ <<it.partitions[p].low, it.partitions[p].high>>
              # <<KafkaPartition_from(topic.partitions[p]).low,
                  KafkaPartition_from(topic.partitions[p]).high>>

\* C38: after a Topics refresh whose metadata fetch succeeded, whether or
\* not a watermark fetch then failed, the list is a beginning of the
\* response in its order and every topic in it has the watermarks of all its
\* partitions fetched: no topic with a partition at the unfetched 0 and 0 is
\* in the list.
C38_ListHoldsFetchedTopics ==
    [][\A resp \in RefreshResponses : \A fail \in 0..WatermarkFetches(resp) :
         Refresh(resp, fail) =>
           /\ Len(items') <= Len(resp)
           /\ fail = 0 => Len(items') = Len(resp)
           /\ \A i \in 1..Len(items') : FullyFetched(items'[i], resp[i])]_vars

\* C38's case: a refresh of <<T2, T1>> failed at the watermarks of T1: the
\* list holds t2 alone, with the watermarks of both its partitions.
C38_Witness ==
    /\ Len(items) = 1
    /\ FullyFetched(items[1], T2)
    /\ Len(err_tasks) > 0
    /\ mode = "Tab"

\* C39: the shared message buffer only grows: whatever the step (a key, a
\* change of page or of selected topic, a refresh, a frame, a new receive
\* task), the buffer before it is the beginning of the buffer after it.
C39_BufferOnlyGrows == [][IsPrefix(messages, messages')]_vars

\* C39's case: the buffer holds two messages, and a second receive task was
\* started on a re-entry into MessagesRecv after the first message came.
C39_Witness ==
    /\ Len(messages) = 2
    /\ Len(recv_tasks) = 2
    /\ topic_page = "MessagesRecv"
    /\ recv_tasks[1].aborted
    /\ ~crashed

\* The modes a tab controller returns.
TabModes == {"Tab", "TabChoose", "Refresh"}

\* C40: the key handlers of the Topics, Groups and Brokers tabs return the
\* modes Tab, TabChoose and Refresh only, never Quit and never an error: the
\* mode becomes Quit only by q or Esc in TabChoose.
C40_TabsNeverQuit ==
    [][/\ (\E key \in Keys : Pressed(key)) => mode' \in TabModes
       /\ \A key \in Keys :
            GroupKeyPress(key) =>
              /\ mode' \in TabModes
              /\ GroupTab_handle_key_press(group_selected, key).mode = mode'
              /\ err_tasks' = err_tasks
       /\ \A key \in Keys :
            BrokerKeyPress(key) =>
              /\ mode' \in TabModes
              /\ BrokerTab_handle_key_press(broker_selected, key).mode = mode'
              /\ err_tasks' = err_tasks
       /\ mode' = "Quit" =>
            /\ mode = "TabChoose"
            /\ TabSelect("q") \/ TabSelect("Esc")]_vars

\* C40's case: the program quit after a key moved the selection in the
\* Brokers tab: the tab was left by q or Esc into TabChoose first.
C40_Witness ==
    /\ mode = "Quit"
    /\ tab = "Broker"
    /\ IsSome(broker_selected)
    /\ IsSome(group_selected)

====
